---------------------------- MODULE Spec2Model ----------------------------
(***************************************************************************)
(* A model of the serac finite-element kernels and their callers:          *)
(*   - the quadrature rule table (quadrature_data.cpp),                     *)
(*   - the sum-factorized interpolate / integrate kernels of the H1        *)
(*     hexahedron element (hexahedron_H1.inl),                             *)
(*   - the quadrature-point state buffer of a Functional evaluation,       *)
(*   - the update_qdata protocol of SolidFunctional (solid_functional.hpp).*)
(*                                                                         *)
(* Floating point numbers are modelled by exact numbers of the field       *)
(* Q(sqrt 3), which holds the Gauss-Legendre nodes for 1 and 2 points per  *)
(* dimension: <<a, b, d>> stands for (a + b*sqrt(3)) / d with d > 0 and    *)
(* gcd(a, b, d) = 1, so that equal numbers are equal values.               *)
(***************************************************************************)
EXTENDS Integers, Sequences, FiniteSets, TLC

(***************************************************************************)
(* Exact arithmetic.                                                       *)
(***************************************************************************)
Abs(x) == IF x < 0 THEN -x ELSE x

RECURSIVE GCD(_, _)
GCD(a, b) == IF b = 0 THEN a ELSE GCD(b, a % b)

\* (a + b*sqrt(3)) / d in lowest terms, d # 0
Num(a, b, d) ==
  LET s == IF d < 0 THEN -1 ELSE 1
      g == GCD(GCD(Abs(a), Abs(b)), Abs(d))
  IN  <<(s * a) \div g, (s * b) \div g, (s * d) \div g>>

FromInt(k) == <<k, 0, 1>>
Rat(k, d) == Num(k, 0, d)
Zero == FromInt(0)
One == FromInt(1)

Add(x, y) == Num(x[1] * y[3] + y[1] * x[3], x[2] * y[3] + y[2] * x[3], x[3] * y[3])
Neg(x) == <<-x[1], -x[2], x[3]>>
Sub(x, y) == Add(x, Neg(y))
Mul(x, y) ==
  Num(x[1] * y[1] + 3 * x[2] * y[2], x[1] * y[2] + x[2] * y[1], x[3] * y[3])
\* 1 / x for x # 0: d * (a - b*sqrt 3) / (a^2 - 3 b^2)
Recip(x) == Num(x[3] * x[1], -(x[3] * x[2]), x[1] * x[1] - 3 * x[2] * x[2])
Div(x, y) == Mul(x, Recip(y))

\* the sum of the entries f[lo] .. f[hi], halving the range
RECURSIVE SumRange(_, _, _)
SumRange(f, lo, hi) ==
  IF lo > hi THEN Zero
  ELSE IF lo = hi THEN f[lo]
  ELSE LET mid == (lo + hi) \div 2
       IN  Add(SumRange(f, lo, mid), SumRange(f, mid + 1, hi))

\* the sum of a function over 0 .. k-1
Sum(f) == SumRange(f, 0, Cardinality(DOMAIN f) - 1)

(***************************************************************************)
(* 3 x 3 matrices: functions over (0..2) x (0..2).                         *)
(***************************************************************************)
Dim == 0 .. 2

det(M) ==
  Add(Sub(Mul(M[0, 0], Sub(Mul(M[1, 1], M[2, 2]), Mul(M[1, 2], M[2, 1]))),
          Mul(M[0, 1], Sub(Mul(M[1, 0], M[2, 2]), Mul(M[1, 2], M[2, 0])))),
      Mul(M[0, 2], Sub(Mul(M[1, 0], M[2, 1]), Mul(M[1, 1], M[2, 0]))))

\* the cofactor of entry (r, cl): rows and columns taken cyclically
Cofactor(M, r, cl) ==
  LET r1 == (r + 1) % 3
      r2 == (r + 2) % 3
      c1 == (cl + 1) % 3
      c2 == (cl + 2) % 3
  IN  Sub(Mul(M[r1, c1], M[r2, c2]), Mul(M[r1, c2], M[r2, c1]))

\* inv(M)[r][cl] = cofactor(cl, r) / det(M)
inv(M) ==
  LET dt == det(M)
  IN  [r \in Dim, cl \in Dim |-> Div(Cofactor(M, cl, r), dt)]

\* dot of a (rows x 3) tensor with a 3 x 3 matrix
dot(A, M, rows) ==
  [i \in rows, k \in Dim |-> Sum([d \in Dim |-> Mul(A[i, d], M[d, k])])]

(***************************************************************************)
(* 1D rule and basis tables.                                               *)
(***************************************************************************)
\* the Gauss-Legendre nodes of [0, 1] for qq points: 1/2, and (3 -+ sqrt 3) / 6
GaussLegendreNodes(qq) ==
  IF qq = 1 THEN [i \in {0} |-> Rat(1, 2)]
  ELSE [i \in {0, 1} |-> IF i = 0 THEN Num(3, -1, 6) ELSE Num(3, 1, 6)]

\* the Gauss-Legendre weights: 1, and 1/2, 1/2
GaussLegendreWeights(qq) ==
  IF qq = 1 THEN [i \in {0} |-> One] ELSE [i \in {0, 1} |-> Rat(1, 2)]

\* the nn Lagrange basis functions on the Gauss-Lobatto nodes of [0, 1], at x
GaussLobattoInterpolation(nn, x) ==
  IF nn = 2 THEN [a \in 0 .. 1 |-> IF a = 0 THEN Sub(One, x) ELSE x]
  ELSE LET xm1 == Sub(x, One)
           tm1 == Sub(Mul(FromInt(2), x), One)
       IN  [a \in 0 .. 2 |->
              IF a = 0 THEN Mul(xm1, tm1)
              ELSE IF a = 1 THEN Mul(FromInt(-4), Mul(xm1, x))
              ELSE Mul(x, tm1)]

\* their derivatives at x
GaussLobattoInterpolationDerivative(nn, x) ==
  IF nn = 2 THEN [a \in 0 .. 1 |-> IF a = 0 THEN FromInt(-1) ELSE One]
  ELSE [a \in 0 .. 2 |->
          IF a = 0 THEN Sub(Mul(FromInt(4), x), FromInt(3))
          ELSE IF a = 1 THEN Sub(FromInt(4), Mul(FromInt(8), x))
          ELSE Sub(Mul(FromInt(4), x), One)]

\* B[qx][dx]: basis function dx at 1D quadrature point qx
BasisB(pp, qq) ==
  LET points1D == GaussLegendreNodes(qq)
  IN  [i \in 0 .. qq - 1 |-> GaussLobattoInterpolation(pp + 1, points1D[i])]

\* G[qx][dx]: its derivative
BasisG(pp, qq) ==
  LET points1D == GaussLegendreNodes(qq)
  IN  [i \in 0 .. qq - 1 |-> GaussLobattoInterpolationDerivative(pp + 1, points1D[i])]

(***************************************************************************)
(* finite_element<Geometry::Hexahedron, H1<p, c>>: order pp, qq quadrature *)
(* points per dimension, cc components.  A dof tensor is a function over    *)
(* (component, dz, dy, dx), a quadrature-point value over (qz, qy, qx, i)  *)
(* and a quadrature-point derivative over (qz, qy, qx, i, d); the per-point*)
(* Jacobians are a function over (row, col, qz, qy, qx).                   *)
(***************************************************************************)
Nodes(pp) == 0 .. pp
QPts(qq) == 0 .. qq - 1
Comps(cc) == 0 .. cc - 1

\* shape function number a = i + n*(j + n*k) at the reference point xi
shape_functions(pp, xi) ==
  LET nn == pp + 1
      N_xi == GaussLobattoInterpolation(nn, xi[0])
      N_eta == GaussLobattoInterpolation(nn, xi[1])
      N_zeta == GaussLobattoInterpolation(nn, xi[2])
  IN  [a \in 0 .. nn * nn * nn - 1 |->
         Mul(Mul(N_xi[a % nn], N_eta[(a \div nn) % nn]), N_zeta[a \div (nn * nn)])]

\* its reference-space gradient
shape_function_gradients(pp, xi) ==
  LET nn == pp + 1
      N_xi == GaussLobattoInterpolation(nn, xi[0])
      N_eta == GaussLobattoInterpolation(nn, xi[1])
      N_zeta == GaussLobattoInterpolation(nn, xi[2])
      dN_xi == GaussLobattoInterpolationDerivative(nn, xi[0])
      dN_eta == GaussLobattoInterpolationDerivative(nn, xi[1])
      dN_zeta == GaussLobattoInterpolationDerivative(nn, xi[2])
  IN  [a \in 0 .. nn * nn * nn - 1, d \in Dim |->
         LET i == a % nn
             j == (a \div nn) % nn
             k == a \div (nn * nn)
         IN  IF d = 0 THEN Mul(Mul(dN_xi[i], N_eta[j]), N_zeta[k])
             ELSE IF d = 1 THEN Mul(Mul(N_xi[i], dN_eta[j]), N_zeta[k])
             ELSE Mul(Mul(N_xi[i], N_eta[j]), dN_zeta[k])]

\* the value-initialised result tuple of interpolate
ZeroValuesAndDerivatives(qq, cc) ==
  [value |-> [qz \in QPts(qq), qy \in QPts(qq), qx \in QPts(qq), i \in Comps(cc) |-> Zero],
   gradient |-> [qz \in QPts(qq), qy \in QPts(qq), qx \in QPts(qq), i \in Comps(cc),
                 d \in Dim |-> Zero]]

\* first pass of interpolate, component i: contraction over dx into cache.A1
InterpolateA1(X, i, pp, qq, B, G) ==
  [k \in 0 .. 1, dz \in Nodes(pp), dy \in Nodes(pp), qx \in QPts(qq) |->
     Sum([dx \in Nodes(pp) |->
            Mul(IF k = 0 THEN B[qx][dx] ELSE G[qx][dx], X[i, dz, dy, dx])])]

\* the second pass with the roles of A1(0) and A1(1) exchanged in the two
\* derivative sums
InterpolateA2_SwappedDerivatives(A1, pp, qq, B, G) ==
  [k \in 0 .. 2, dz \in Nodes(pp), qy \in QPts(qq), qx \in QPts(qq) |->
     Sum([dy \in Nodes(pp) |->
            IF k = 0 THEN Mul(B[qy][dy], A1[0, dz, dy, qx])
            ELSE IF k = 1 THEN Mul(B[qy][dy], A1[0, dz, dy, qx])
            ELSE Mul(G[qy][dy], A1[1, dz, dy, qx])])]

\* second pass: contraction over dy into cache.A2
InterpolateA2(A1, pp, qq, B, G) ==
  [k \in 0 .. 2, dz \in Nodes(pp), qy \in QPts(qq), qx \in QPts(qq) |->
     Sum([dy \in Nodes(pp) |->
            IF k = 0 THEN Mul(B[qy][dy], A1[0, dz, dy, qx])
            ELSE IF k = 1 THEN Mul(B[qy][dy], A1[1, dz, dy, qx])
            ELSE Mul(G[qy][dy], A1[0, dz, dy, qx])])]

\* third pass: contraction over dz, added to component i of the result
InterpolateAccumulate(vd, A2, i, pp, qq, cc, B, G) ==
  [value |->
     [qz \in QPts(qq), qy \in QPts(qq), qx \in QPts(qq), j \in Comps(cc) |->
        IF j # i THEN vd.value[qz, qy, qx, j]
        ELSE Add(vd.value[qz, qy, qx, j],
                 Sum([dz \in Nodes(pp) |-> Mul(B[qz][dz], A2[0, dz, qy, qx])]))],
   gradient |->
     [qz \in QPts(qq), qy \in QPts(qq), qx \in QPts(qq), j \in Comps(cc), d \in Dim |->
        IF j # i THEN vd.gradient[qz, qy, qx, j, d]
        ELSE Add(vd.gradient[qz, qy, qx, j, d],
                 Sum([dz \in Nodes(pp) |->
                        IF d = 0 THEN Mul(B[qz][dz], A2[1, dz, qy, qx])
                        ELSE IF d = 1 THEN Mul(B[qz][dz], A2[2, dz, qy, qx])
                        ELSE Mul(G[qz][dz], A2[0, dz, qy, qx])]))]]

\* the Jacobian the CPU interpolate builds at a point: J[row][col] = jacobians(col, row, q)
InterpolateJ(jacobians, qz, qy, qx) ==
  [row \in Dim, col \in Dim |-> jacobians[col, row, qz, qy, qx]]

\* the loop over the quadrature points that ends one component iteration of
\* the CPU interpolate: the whole c x 3 gradient of the point is replaced by
\* dot(grad_u, inv(J))
InterpolateTransform(vd, jacobians, qq, cc) ==
  LET newgrad ==
        [qz \in QPts(qq), qy \in QPts(qq), qx \in QPts(qq) |->
           LET grad_u == [j \in Comps(cc), d \in Dim |-> vd.gradient[qz, qy, qx, j, d]]
           IN  dot(grad_u, inv(InterpolateJ(jacobians, qz, qy, qx)), Comps(cc))]
  IN  [value |-> vd.value,
       gradient |->
         [qz \in QPts(qq), qy \in QPts(qq), qx \in QPts(qq), j \in Comps(cc), d \in Dim |->
            newgrad[qz, qy, qx][j, d]]]

\* the body of "for (int i = 0; i < c; i++)" of the CPU interpolate
InterpolateComponent(vd, X, jacobians, i, pp, qq, cc, B, G) ==
  LET A1 == InterpolateA1(X, i, pp, qq, B, G)
      A2 == InterpolateA2(A1, pp, qq, B, G)
      acc == InterpolateAccumulate(vd, A2, i, pp, qq, cc, B, G)
  IN  InterpolateTransform(acc, jacobians, qq, cc)

RECURSIVE InterpolateLoop(_, _, _, _, _, _, _, _, _)
InterpolateLoop(vd, X, jacobians, i, pp, qq, cc, B, G) ==
  IF i = cc THEN vd
  ELSE InterpolateLoop(InterpolateComponent(vd, X, jacobians, i, pp, qq, cc, B, G),
                       X, jacobians, i + 1, pp, qq, cc, B, G)

\* interpolate(X, jacobians, rule) on the CPU
interpolate(X, jacobians, pp, qq, cc) ==
  InterpolateLoop(ZeroValuesAndDerivatives(qq, cc), X, jacobians, 0, pp, qq, cc,
                  BasisB(pp, qq), BasisG(pp, qq))

\* the body of the component loop of the simd interpolate: no Jacobian
SimdInterpolateComponent(vd, X, i, pp, qq, cc, B, G) ==
  LET A1 == InterpolateA1(X, i, pp, qq, B, G)
      A2 == InterpolateA2(A1, pp, qq, B, G)
  IN  InterpolateAccumulate(vd, A2, i, pp, qq, cc, B, G)

RECURSIVE SimdInterpolateLoop(_, _, _, _, _, _, _, _)
SimdInterpolateLoop(vd, X, i, pp, qq, cc, B, G) ==
  IF i = cc THEN vd
  ELSE SimdInterpolateLoop(SimdInterpolateComponent(vd, X, i, pp, qq, cc, B, G),
                           X, i + 1, pp, qq, cc, B, G)

\* interpolate(X, rule) of the simd path: values and reference-space gradients
interpolate_simd(X, pp, qq, cc) ==
  SimdInterpolateLoop(ZeroValuesAndDerivatives(qq, cc), X, 0, pp, qq, cc,
                      BasisB(pp, qq), BasisG(pp, qq))

\* the matrix the CPU integrate builds at a point: J_T[row][col] = jacobians(row, col, q)
IntegrateJ_T(jacobians, qz, qy, qx) ==
  [row \in Dim, col \in Dim |-> jacobians[row, col, qz, qy, qx]]

\* dv without the quadrature weights
IntegrateDv_WithoutWeights(jacobians, qq, qz, qy, qx) ==
  det(IntegrateJ_T(jacobians, qz, qy, qx))

\* dv = det(J_T) * weights1D[qx] * weights1D[qy] * weights1D[qz]
IntegrateDv(jacobians, qq, qz, qy, qx) ==
  LET weights1D == GaussLegendreWeights(qq)
  IN  Mul(Mul(Mul(det(IntegrateJ_T(jacobians, qz, qy, qx)), weights1D[qx]), weights1D[qy]),
          weights1D[qz])

\* the first loop of the CPU integrate, which overwrites the caller's buffers:
\* sources(q) = sources(q) * dv and fluxes(q) = dot(fluxes(q), inv(J_T)) * dv
IntegrateScale(sources, fluxes, jacobians, qq, cc) ==
  LET dv == [qz \in QPts(qq), qy \in QPts(qq), qx \in QPts(qq) |->
               IntegrateDv(jacobians, qq, qz, qy, qx)]
      pulled ==
        [qz \in QPts(qq), qy \in QPts(qq), qx \in QPts(qq) |->
           LET fl == [j \in Comps(cc), d \in Dim |-> fluxes[qz, qy, qx, j, d]]
           IN  dot(fl, inv(IntegrateJ_T(jacobians, qz, qy, qx)), Comps(cc))]
  IN  [sources |->
         [qz \in QPts(qq), qy \in QPts(qq), qx \in QPts(qq), j \in Comps(cc) |->
            Mul(sources[qz, qy, qx, j], dv[qz, qy, qx])],
       fluxes |->
         [qz \in QPts(qq), qy \in QPts(qq), qx \in QPts(qq), j \in Comps(cc), d \in Dim |->
            Mul(pulled[qz, qy, qx][j, d], dv[qz, qy, qx])]]

\* first pass of integrate, component i: contraction over qx into cache.A2(., dx, qy, qz)
IntegrateA2(sources, fluxes, i, pp, qq, B, G) ==
  [k \in 0 .. 2, dx \in Nodes(pp), qy \in QPts(qq), qz \in QPts(qq) |->
     Sum([qx \in QPts(qq) |->
            IF k = 0 THEN Add(Mul(B[qx][dx], sources[qz, qy, qx, i]),
                              Mul(G[qx][dx], fluxes[qz, qy, qx, i, 0]))
            ELSE IF k = 1 THEN Mul(B[qx][dx], fluxes[qz, qy, qx, i, 1])
            ELSE Mul(B[qx][dx], fluxes[qz, qy, qx, i, 2])])]

\* second pass: contraction over qy into cache.A1(., dx, dy, qz)
IntegrateA1(A2, pp, qq, B, G) ==
  [k \in 0 .. 1, dx \in Nodes(pp), dy \in Nodes(pp), qz \in QPts(qq) |->
     Sum([qy \in QPts(qq) |->
            IF k = 0 THEN Add(Mul(B[qy][dy], A2[0, dx, qy, qz]),
                              Mul(G[qy][dy], A2[1, dx, qy, qz]))
            ELSE Mul(B[qy][dy], A2[2, dx, qy, qz])])]

\* the third pass storing its sums with "=" instead of "+="
IntegrateAccumulate_Overwriting(element_residual, A1, i, pp, qq, cc, B, G) ==
  [j \in Comps(cc), dz \in Nodes(pp), dy \in Nodes(pp), dx \in Nodes(pp) |->
     IF j # i THEN element_residual[j, dz, dy, dx]
     ELSE Sum([qz \in QPts(qq) |->
                 Add(Mul(B[qz][dz], A1[0, dx, dy, qz]),
                     Mul(G[qz][dz], A1[1, dx, dy, qz]))])]

\* third pass: contraction over qz, added to component i of element_residual
IntegrateAccumulate(element_residual, A1, i, pp, qq, cc, B, G) ==
  [j \in Comps(cc), dz \in Nodes(pp), dy \in Nodes(pp), dx \in Nodes(pp) |->
     IF j # i THEN element_residual[j, dz, dy, dx]
     ELSE Add(element_residual[j, dz, dy, dx],
              Sum([qz \in QPts(qq) |->
                     Add(Mul(B[qz][dz], A1[0, dx, dy, qz]),
                         Mul(G[qz][dz], A1[1, dx, dy, qz]))]))]

\* the body of "for (int i = 0; i < c; i++)" of integrate (CPU and simd)
IntegrateComponent(element_residual, sources, fluxes, i, pp, qq, cc, B, G) ==
  LET A2 == IntegrateA2(sources, fluxes, i, pp, qq, B, G)
      A1 == IntegrateA1(A2, pp, qq, B, G)
  IN  IntegrateAccumulate(element_residual, A1, i, pp, qq, cc, B, G)

RECURSIVE IntegrateLoop(_, _, _, _, _, _, _, _, _)
IntegrateLoop(element_residual, sources, fluxes, i, pp, qq, cc, B, G) ==
  IF i = cc THEN element_residual
  ELSE IntegrateLoop(IntegrateComponent(element_residual, sources, fluxes, i, pp, qq, cc, B, G),
                     sources, fluxes, i + 1, pp, qq, cc, B, G)

\* integrate(sources, fluxes, rule, element_residual) of the simd path
integrate_simd(sources, fluxes, element_residual, pp, qq, cc) ==
  IntegrateLoop(element_residual, sources, fluxes, 0, pp, qq, cc,
                BasisB(pp, qq), BasisG(pp, qq))

\* an integrate whose scaling loop sits inside the loop over the components,
\* as the Jacobian loop of interpolate does
RECURSIVE IntegrateLoopScalingEveryComponent(_, _, _, _, _, _, _, _)
IntegrateLoopScalingEveryComponent(r, jacobians, i, pp, qq, cc, B, G) ==
  IF i = cc THEN r
  ELSE LET scaled == IntegrateScale(r.sources, r.fluxes, jacobians, qq, cc)
       IN  IntegrateLoopScalingEveryComponent(
             [sources |-> scaled.sources,
              fluxes |-> scaled.fluxes,
              element_residual |->
                IntegrateComponent(r.element_residual, scaled.sources, scaled.fluxes,
                                   i, pp, qq, cc, B, G)],
             jacobians, i + 1, pp, qq, cc, B, G)

integrate_ScalingEveryComponent(sources, fluxes, jacobians, element_residual, pp, qq, cc) ==
  IntegrateLoopScalingEveryComponent(
    [sources |-> sources, fluxes |-> fluxes, element_residual |-> element_residual],
    jacobians, 0, pp, qq, cc, BasisB(pp, qq), BasisG(pp, qq))

\* integrate(sources, fluxes, jacobians, rule, element_residual) on the CPU:
\* the three buffers it writes, as they are when it returns
integrate(sources, fluxes, jacobians, element_residual, pp, qq, cc) ==
  LET scaled == IntegrateScale(sources, fluxes, jacobians, qq, cc)
  IN  [sources |-> scaled.sources,
       fluxes |-> scaled.fluxes,
       element_residual |->
         IntegrateLoop(element_residual, scaled.sources, scaled.fluxes, 0, pp, qq, cc,
                       BasisB(pp, qq), BasisG(pp, qq))]

(***************************************************************************)
(* The state of one element's processing by the CPU kernels: the template  *)
(* parameters, the caller's buffers, and what the last call was given.     *)
(***************************************************************************)
VARIABLES
  tparams,                \* [p, q, c]: the template parameters of the element and rule
  X,                      \* the element's dof tensor
  jacobians,              \* the per-point Jacobians
  sources,                \* the caller's quadrature-point source buffer
  fluxes,                 \* the caller's quadrature-point flux buffer
  element_residual,       \* the caller's residual tensor
  values_and_derivatives, \* what the last interpolate returned, and which overload
  hcall                   \* the last integrate call: overload and buffers as passed in

hexVars ==
  <<tparams, X, jacobians, sources, fluxes, element_residual, values_and_derivatives, hcall>>

(***************************************************************************)
(* The caller of GaussLegendreRule: the last request and the rule returned *)
(***************************************************************************)
VARIABLES
  rule_request,           \* [geom, q, n]: the arguments of the last call, n calls so far
  rule,                   \* the QuadratureRule it returned: [points, weights]
  lut_read                \* the read polynomial_order_LUT[geom][order.p] of the last call

quadVars == <<rule_request, rule, lut_read>>

(***************************************************************************)
(* A Functional with one stateful domain integral.                         *)
(***************************************************************************)
VARIABLES
  integrand,              \* the callback (and state type) the integral was declared with
  qdata,                  \* the QuadratureData: (element, point) -> state
  qdata_initial,          \* the buffer as it was when the integral was declared
  update_qdata,           \* Functional::update_qdata
  evaluations             \* one entry per operator() call: who called, the flag, the derivative

funVars == <<integrand, qdata, qdata_initial, update_qdata, evaluations>>

(***************************************************************************)
(* A SolidFunctional object, from its construction on.                      *)
(***************************************************************************)
VARIABLES
  solid_tparams,          \* [order, dim]: the template parameters of SolidFunctional
  mesh_,                  \* [Dimension]: the runtime mesh of BasePhysics
  is_quasistatic_,        \* no options.dynamic was given
  geom_nonlin_,           \* GeometricNonlinearities::On
  residual_,              \* "null" or "set": the unique_ptr to the Functional
  residual_with_bcs_,     \* "null" or "set": the unique_ptr to the StdFunctionOperator
  J_,                     \* "null" or "assembled": the unique_ptr to the Jacobian matrix
  solver_operator,        \* "unset" or "set": whether nonlin_solver_.SetOperator has run
  parameter_states_,      \* "none" (no parameter_space), "indeterminate" or "set"
  mesh_nodes,             \* "reference" or "deformed": the nodes mesh_ currently holds
  cycle_,                 \* the number of completed steps
  pc,                     \* "construct", "idle", "solve" (inside advanceTimestep), "error", "crashed"
  method,                 \* the last method entered and whether setup was complete then
  error_message,          \* the message of the SLIC error that ended the program
  displacement_,          \* the displacement field; one number stands for the vector
  reference_nodes_,       \* the nodes the mesh had at construction
  deformed_nodes_,        \* the nodes advanceTimestep computes from the displacement
  u_,                     \* the displacement the ODE predicts from
  c0_,                    \* the ODE's coefficient of d2u_dt2 in the predicted displacement
  predicted_displacement_,
  J_terms,                \* what J_ was assembled from: <<coefficient, derivative>>, ...
  residual_calls          \* the (*residual_)(...) calls of the last step

ctorVars == <<solid_tparams, mesh_>>

fieldVars ==
  <<displacement_, reference_nodes_, deformed_nodes_, u_, c0_, predicted_displacement_,
    J_terms, residual_calls>>

solidVars ==
  <<ctorVars, is_quasistatic_, geom_nonlin_, residual_, residual_with_bcs_, J_, solver_operator,
    parameter_states_, mesh_nodes, cycle_, pc, method, error_message, fieldVars>>

(***************************************************************************)
(* The caller of the heat_transfer material constructors.                  *)
(***************************************************************************)
VARIABLES
  conductor_args,         \* [type, input_density, input_specific_heat_capacity, input_conductivity]
  conductor,              \* the object's members: [density, specific_heat_capacity, conductivity]
  conductor_error         \* the message of the SLIC error the constructor ended with, or ""

thermalVars == <<conductor_args, conductor, conductor_error>>

(***************************************************************************)
(* One thread block running one of the device kernels of the element on    *)
(* one element: what each thread has done and what the block's shared      *)
(* tables and scratch tensors were last written with.                      *)
(***************************************************************************)
VARIABLES
  launch,                 \* [kernel, p, q, c, e, blockDim]: the kernel, its element and the block's shape
  tpc,                    \* thread -> the number of loop nests of the kernel it has completed
  shared_tables,          \* (j, i) -> the entry of B_ and G_ that B(j, i), G(j, i) hold, or <<>>
  table_writers,          \* (j, i) -> the threads that have written B(j, i), G(j, i)
  A1_written,             \* entry of A1 -> the component it was last written for, -1 if never
  A2_written,             \* entry of A2 -> the component it was last written for, -1 if never
  hazards,                \* the kinds of reads that did not find what the previous pass wrote
  writes,                 \* the stores made to A1, A2 and r_e: [array, index, pass, thread]
  barriers                \* thread -> the number of __syncthreads() it has executed

syncVars ==
  <<launch, tpc, shared_tables, table_writers, A1_written, A2_written, hazards, writes,
    barriers>>

\* the memory of the block with the numbers in it
VARIABLES
  shared_B,               \* __shared__ tensor<double, q, n> B: (j, i) -> value
  shared_G,               \* __shared__ tensor<double, q, n> G
  cache_A1,               \* the scratch tensor A1: (k, dz, dy, qx) -> value
  cache_A2,               \* the scratch tensor A2: (k, dz, qy, qx) -> value
  qf_input                \* thread -> the qf_input it has accumulated

deviceVars == <<shared_B, shared_G, cache_A1, cache_A2, qf_input>>

gpuVars == <<syncVars, deviceVars>>

(***************************************************************************)
(* One call of MaterialDriver::runUniaxial.                                *)
(***************************************************************************)
VARIABLES
  driver_args,            \* [maxTime, nsteps]: the arguments of the call
  driver_t,               \* double t
  dudx,                   \* dudx[0][0], the axial displacement gradient
  step_i,                 \* unsigned int i of the loop over the steps
  newton_j,               \* int j of the Newton loop
  corrections,            \* how often the current step has subtracted corr from dudx
  resnorm0,               \* the norm of the first residual of the step
  resnorm,                \* the norm of the latest residual
  stress,                 \* get_value(response.stress)[0][0] of the latest response
  stress_strain_history,  \* the vector that is returned
  driver_pc               \* "none", "loop", "newton", "push", "returned"

driverVars ==
  <<driver_args, driver_t, dudx, step_i, newton_j, corrections, resnorm0, resnorm, stress,
    stress_strain_history, driver_pc>>

(***************************************************************************)
(* One launch of reference_cuda_kernel.                                    *)
(***************************************************************************)
VARIABLES
  grid,                   \* [gridDim, blockDim, num_elements, rule_size]
  qe,                     \* thread -> its loop variable qe
  adding,                 \* thread -> whether it stands in front of detail::Add
  r_seen,                 \* thread -> r(., e) as it was when the thread formed r_elem
  r_global,               \* e -> q -> how many contributions of (e, q) r(., e) holds
  visits                  \* the loop iterations run so far: [thread, qe, e, q]

referenceVars == <<grid, qe, adding, r_seen, r_global, visits>>

(***************************************************************************)
(* One call of geom_local_face_dofs(p).                                    *)
(***************************************************************************)
VARIABLES
  face_p,                 \* the argument p
  face_pc,                \* the loop being run: "tris", "quads", "tets", "hexes", "return"
  face_k,                 \* int k of the loop
  face_j,                 \* int j of the inner loop
  output                  \* geometry -> side -> index -> local dof id, -1 where not yet set

faceVars == <<face_p, face_pc, face_k, face_j, output>>

(***************************************************************************)
(* The scratch cache of one CPU interpolate or integrate call.             *)
(***************************************************************************)
VARIABLES
  cpu_call,               \* [kernel, n, q, c]: the call and its template parameters
  cpu_pc,                 \* the number of loop nests over the cache that have run
  cpu_A1,                 \* entry of cache.A1 -> the component it was last written for, -1 if never
  cpu_A2,                 \* the same for cache.A2
  cpu_faults              \* the accesses outside the extents and the reads of stale entries

cacheVars == <<cpu_call, cpu_pc, cpu_A1, cpu_A2, cpu_faults>>

utilVars == <<driverVars, referenceVars, faceVars, cacheVars>>

vars == <<hexVars, quadVars, funVars, solidVars, thermalVars, gpuVars, utilVars>>

\* bounds of the inputs
MaxComponents == 2
NumSeeds == 2
MaxIntegrateCalls == 1

\* (order, points per dimension): n = p + 1 below, equal to and above q
OrdersAndPoints == {<<1, 1>>, <<1, 2>>, <<2, 2>>}
JacobianKinds == 0 .. 2

\* a small integer in -2 .. 2 chosen by a seed and an index
Scramble(seed, k) == FromInt(((seed * (k + 1) + (k \div 3) + seed * seed) % 5) - 2)

SeededDofs(seed, pp, cc) ==
  [i \in Comps(cc), dz \in Nodes(pp), dy \in Nodes(pp), dx \in Nodes(pp) |->
     Scramble(seed, dx + 3 * dy + 9 * dz + 27 * i)]

SeededSources(seed, qq, cc) ==
  [qz \in QPts(qq), qy \in QPts(qq), qx \in QPts(qq), i \in Comps(cc) |->
     Scramble(seed + 1, qx + 2 * qy + 4 * qz + 8 * i)]

SeededFluxes(seed, qq, cc) ==
  [qz \in QPts(qq), qy \in QPts(qq), qx \in QPts(qq), i \in Comps(cc), d \in Dim |->
     Scramble(seed + 2, d + 3 * (qx + 2 * qy + 4 * qz + 8 * i))]

\* the dofs of f(x) = x: every node holds its x-coordinate, dx / p
XCoordinateDofs(pp, cc) ==
  [i \in Comps(cc), dz \in Nodes(pp), dy \in Nodes(pp), dx \in Nodes(pp) |-> Rat(dx, pp)]

\* the constant source 1 and the zero flux
UnitSources(qq, cc) ==
  [qz \in QPts(qq), qy \in QPts(qq), qx \in QPts(qq), i \in Comps(cc) |-> One]

ZeroFluxes(qq, cc) ==
  [qz \in QPts(qq), qy \in QPts(qq), qx \in QPts(qq), i \in Comps(cc), d \in Dim |-> Zero]

ZeroDofs(pp, cc) ==
  [i \in Comps(cc), dz \in Nodes(pp), dy \in Nodes(pp), dx \in Nodes(pp) |-> Zero]

\* Jacobians with a non-zero determinant: the identity, a stretch, and a
\* non-symmetric shear that varies from point to point
SeededJacobians(kind, qq) ==
  [row \in Dim, col \in Dim, qz \in QPts(qq), qy \in QPts(qq), qx \in QPts(qq) |->
     IF kind = 0 THEN (IF row = col THEN One ELSE Zero)
     ELSE IF kind = 1 THEN (IF row = col THEN (IF row = 0 THEN FromInt(2) ELSE One) ELSE Zero)
     ELSE (IF row = col THEN (IF row = 1 THEN FromInt(2) ELSE One)
           ELSE IF row = 0 /\ col = 1 THEN FromInt(1 + qx)
           ELSE IF row = 2 /\ col = 0 THEN FromInt(qz - 1)
           ELSE Zero)]

NoCall == [op |-> "none", sources |-> <<>>, fluxes |-> <<>>, element_residual |-> <<>>, n |-> 0]
NoResult == [kind |-> "none", value |-> <<>>, gradient |-> <<>>]

NoRuleRequest == [geom |-> "none", q |-> 0, n |-> 0]
NoLutRead == [geom |-> "none", index |-> 0, size |-> 0, outcome |-> "none"]
EmptyRule == [points |-> <<>>, weights |-> <<>>]
NoMethod == [name |-> "none", setup |-> FALSE]

\* no element is being processed
HexIdle ==
  /\ tparams = [p |-> 0, q |-> 0, c |-> 0, overload |-> "none"]
  /\ X = <<>>
  /\ jacobians = <<>>
  /\ sources = <<>>
  /\ fluxes = <<>>
  /\ element_residual = <<>>
  /\ values_and_derivatives = NoResult
  /\ hcall = NoCall

\* no rule has been asked for
QuadIdle ==
  /\ rule_request = NoRuleRequest
  /\ rule = EmptyRule
  /\ lut_read = NoLutRead

\* no kernel has been launched
SyncIdle ==
  /\ launch = [kernel |-> "none"]
  /\ tpc = <<>>
  /\ shared_tables = <<>>
  /\ table_writers = <<>>
  /\ A1_written = <<>>
  /\ A2_written = <<>>
  /\ hazards = {}
  /\ writes = {}
  /\ barriers = <<>>

\* no memory has been allocated
DeviceIdle ==
  /\ shared_B = <<>>
  /\ shared_G = <<>>
  /\ cache_A1 = <<>>
  /\ cache_A2 = <<>>
  /\ qf_input = <<>>

GpuIdle ==
  /\ SyncIdle
  /\ DeviceIdle

\* runUniaxial has not been called
DriverIdle ==
  /\ driver_args = [maxTime |-> 0, nsteps |-> 0]
  /\ driver_t = Zero
  /\ dudx = Zero
  /\ step_i = 0
  /\ newton_j = 0
  /\ corrections = 0
  /\ resnorm0 = <<0, 0>>
  /\ resnorm = <<0, 0>>
  /\ stress = 0
  /\ stress_strain_history = <<>>
  /\ driver_pc = "none"

\* reference_cuda_kernel has not been launched
ReferenceIdle ==
  /\ grid = [gridDim |-> 0, blockDim |-> 0, num_elements |-> 0, rule_size |-> 0]
  /\ qe = <<>>
  /\ adding = <<>>
  /\ r_seen = <<>>
  /\ r_global = <<>>
  /\ visits = {}

\* geom_local_face_dofs has not been called
FaceIdle ==
  /\ face_p = 0
  /\ face_pc = "none"
  /\ face_k = 0
  /\ face_j = 0
  /\ output = <<>>

\* no CPU kernel is being followed through its cache
CacheIdle ==
  /\ cpu_call = [kernel |-> "none"]
  /\ cpu_pc = 0
  /\ cpu_A1 = <<>>
  /\ cpu_A2 = <<>>
  /\ cpu_faults = {}

UtilIdle ==
  /\ DriverIdle
  /\ ReferenceIdle
  /\ FaceIdle
  /\ CacheIdle

\* no material has been constructed
ThermalIdle ==
  /\ conductor_args = [type |-> "none"]
  /\ conductor = [type |-> "none"]
  /\ conductor_error = ""

\* no Functional has been built
FunIdle ==
  /\ integrand = "none"
  /\ qdata = <<>>
  /\ qdata_initial = <<>>
  /\ update_qdata = FALSE
  /\ evaluations = <<>>

\* no SolidFunctional has been built
SolidIdle ==
  /\ solid_tparams = [order |-> 0, dim |-> 0]
  /\ mesh_ = [Dimension |-> 0]
  /\ is_quasistatic_ = TRUE
  /\ geom_nonlin_ = FALSE
  /\ residual_ = "null"
  /\ residual_with_bcs_ = "null"
  /\ J_ = "null"
  /\ solver_operator = "unset"
  /\ parameter_states_ = "none"
  /\ mesh_nodes = "reference"
  /\ cycle_ = 0
  /\ pc = "none"
  /\ method = NoMethod
  /\ error_message = ""
  /\ displacement_ = 0
  /\ reference_nodes_ = 0
  /\ deformed_nodes_ = 0
  /\ u_ = 0
  /\ c0_ = 0
  /\ predicted_displacement_ = 0
  /\ J_terms = <<>>
  /\ residual_calls = <<>>

\* One element is processed by one family of overloads: the kernels that take
\* the Jacobians ("cpu") or the simd kernels, which work in reference space
\* and are given the identity here.  Odd seeds start from a residual that
\* already holds contributions, even seeds from a zero residual.
HexInit ==
  \E pq \in OrdersAndPoints, cc \in 1 .. MaxComponents, seed \in 0 .. NumSeeds,
     kind \in JacobianKinds, ov \in {"cpu", "simd"} :
    /\ ov = "simd" => kind = 0
    /\ seed = 0 => (pq = <<1, 2>> /\ cc = 1 /\ kind = 0 /\ ov = "cpu")
    /\ tparams = [p |-> pq[1], q |-> pq[2], c |-> cc, overload |-> ov]
    /\ X = IF seed = 0 THEN XCoordinateDofs(pq[1], cc) ELSE SeededDofs(seed, pq[1], cc)
    /\ jacobians = SeededJacobians(kind, pq[2])
    /\ sources = IF seed = 0 THEN UnitSources(pq[2], cc) ELSE SeededSources(seed, pq[2], cc)
    /\ fluxes = IF seed = 0 THEN ZeroFluxes(pq[2], cc) ELSE SeededFluxes(seed, pq[2], cc)
    /\ element_residual =
         IF seed % 2 = 1 THEN SeededDofs(seed + 3, pq[1], cc) ELSE ZeroDofs(pq[1], cc)
    /\ values_and_derivatives = NoResult
    /\ hcall = NoCall
    /\ QuadIdle
    /\ ThermalIdle
    /\ GpuIdle
    /\ FunIdle
    /\ SolidIdle
    /\ UtilIdle

\* auto vd = interpolate(X, jacobians, rule)
CallInterpolate ==
  /\ tparams.overload = "cpu"
  /\ values_and_derivatives.kind = "none"
  /\ values_and_derivatives' =
       [kind |-> "cpu"] @@ interpolate(X, jacobians, tparams.p, tparams.q, tparams.c)
  /\ UNCHANGED <<tparams, X, jacobians, sources, fluxes, element_residual, hcall>>
  /\ UNCHANGED <<quadVars, funVars, solidVars, thermalVars, gpuVars, utilVars>>

\* auto vd = interpolate(X, rule), the simd overload
CallInterpolateSimd ==
  /\ tparams.overload = "simd"
  /\ values_and_derivatives.kind = "none"
  /\ values_and_derivatives' =
       [kind |-> "simd"] @@ interpolate_simd(X, tparams.p, tparams.q, tparams.c)
  /\ UNCHANGED <<tparams, X, jacobians, sources, fluxes, element_residual, hcall>>
  /\ UNCHANGED <<quadVars, funVars, solidVars, thermalVars, gpuVars, utilVars>>

\* integrate(sources, fluxes, jacobians, rule, element_residual), called as
\* the kernels call it: after the interpolate of the element
CallIntegrate ==
  /\ tparams.overload = "cpu"
  /\ values_and_derivatives.kind = "cpu"
  /\ hcall.n < MaxIntegrateCalls
  /\ LET r == integrate(sources, fluxes, jacobians, element_residual,
                        tparams.p, tparams.q, tparams.c)
     IN  /\ sources' = r.sources
         /\ fluxes' = r.fluxes
         /\ element_residual' = r.element_residual
  /\ hcall' = [op |-> "integrate", sources |-> sources, fluxes |-> fluxes,
               element_residual |-> element_residual, n |-> hcall.n + 1]
  /\ UNCHANGED <<tparams, X, jacobians, values_and_derivatives>>
  /\ UNCHANGED <<quadVars, funVars, solidVars, thermalVars, gpuVars, utilVars>>

\* integrate(sources, fluxes, rule, element_residual), the simd overload
CallIntegrateSimd ==
  /\ tparams.overload = "simd"
  /\ values_and_derivatives.kind = "simd"
  /\ hcall.n < MaxIntegrateCalls
  /\ element_residual' =
       integrate_simd(sources, fluxes, element_residual, tparams.p, tparams.q, tparams.c)
  /\ hcall' = [op |-> "integrate_simd", sources |-> sources, fluxes |-> fluxes,
               element_residual |-> element_residual, n |-> hcall.n + 1]
  /\ UNCHANGED <<tparams, X, jacobians, sources, fluxes, values_and_derivatives>>
  /\ UNCHANGED <<quadVars, funVars, solidVars, thermalVars, gpuVars, utilVars>>

HexNext ==
  \/ CallInterpolate
  \/ CallInterpolateSimd
  \/ CallIntegrate
  \/ CallIntegrateSimd

SpecHex == HexInit /\ [][HexNext]_vars

(***************************************************************************)
(* The direct (unfactorized) contractions the kernels are compared with.   *)
(***************************************************************************)
\* the reference point of quadrature point (qz, qy, qx)
QuadraturePoint(qq, qz, qy, qx) ==
  LET points1D == GaussLegendreNodes(qq)
  IN  [d \in Dim |-> IF d = 0 THEN points1D[qx] ELSE IF d = 1 THEN points1D[qy] ELSE points1D[qz]]

NodeIds(pp) == 0 .. (pp + 1) * (pp + 1) * (pp + 1) - 1

\* the dof of component i at node a = dx + n*(dy + n*dz)
DofAt(T, i, a, pp) ==
  T[i, a \div ((pp + 1) * (pp + 1)), (a \div (pp + 1)) % (pp + 1), a % (pp + 1)]

\* sum over a of shape_functions(xi)[a] * X_i[a], for every point and component
DirectValues(XX, pp, qq, cc) ==
  [qz \in QPts(qq), qy \in QPts(qq), qx \in QPts(qq) |->
     LET N == shape_functions(pp, QuadraturePoint(qq, qz, qy, qx))
     IN  [i \in Comps(cc) |-> Sum([a \in NodeIds(pp) |-> Mul(N[a], DofAt(XX, i, a, pp))])]]

\* sum over a of shape_function_gradients(xi)[a] * X_i[a]
DirectGradients(XX, pp, qq, cc) ==
  [qz \in QPts(qq), qy \in QPts(qq), qx \in QPts(qq) |->
     LET dN == shape_function_gradients(pp, QuadraturePoint(qq, qz, qy, qx))
     IN  [i \in Comps(cc), d \in Dim |->
            Sum([a \in NodeIds(pp) |-> Mul(dN[a, d], DofAt(XX, i, a, pp))])]]

AllPoints(qq) == QPts(qq) \X QPts(qq) \X QPts(qq)

\* quadrature point number k = qx + q*(qy + q*qz) as <<qz, qy, qx>>
PointIds(qq) == 0 .. qq * qq * qq - 1
PointAt(qq, k) == <<k \div (qq * qq), (k \div qq) % qq, k % qq>>

\* C2: the sum-factorized simd interpolate returns, at every quadrature point
\* and for every component, the direct contraction of the dofs with
\* shape_functions (value) and shape_function_gradients (reference gradient).
C2_SimdInterpolateIsDirectContraction ==
  values_and_derivatives.kind = "simd" =>
    LET V == DirectValues(X, tparams.p, tparams.q, tparams.c)
        DG == DirectGradients(X, tparams.p, tparams.q, tparams.c)
    IN  \A pt \in AllPoints(tparams.q), i \in Comps(tparams.c) :
          /\ values_and_derivatives.value[pt[1], pt[2], pt[3], i] = V[pt[1], pt[2], pt[3]][i]
          /\ \A d \in Dim :
               values_and_derivatives.gradient[pt[1], pt[2], pt[3], i, d]
                 = DG[pt[1], pt[2], pt[3]][i, d]

\* a simd interpolate of a second-order element with two components and a
\* non-constant field has run
C2_Witness ==
  /\ values_and_derivatives.kind = "simd"
  /\ tparams.p = 2
  /\ tparams.q = 2
  /\ tparams.c = 2
  /\ \E pt \in AllPoints(tparams.q) :
       values_and_derivatives.gradient[pt[1], pt[2], pt[3], 1, 1] # Zero

\* the contribution of the direct weighted contraction to node a, component i
DirectResidual(ss, ff, jac, pp, qq, cc) ==
  LET perPoint ==
        [qz \in QPts(qq), qy \in QPts(qq), qx \in QPts(qq) |->
           LET xi == QuadraturePoint(qq, qz, qy, qx)
               fl == [j \in Comps(cc), d \in Dim |-> ff[qz, qy, qx, j, d]]
           IN  [N |-> shape_functions(pp, xi),
                dN |-> shape_function_gradients(pp, xi),
                dv |-> IntegrateDv(jac, qq, qz, qy, qx),
                pulled |-> dot(fl, inv(IntegrateJ_T(jac, qz, qy, qx)), Comps(cc))]]
  IN  [i \in Comps(cc), a \in NodeIds(pp) |->
         Sum([k \in PointIds(qq) |->
                LET pt == PointAt(qq, k)
                    r == perPoint[pt[1], pt[2], pt[3]]
                IN  Mul(r.dv,
                        Add(Mul(r.N[a], ss[pt[1], pt[2], pt[3], i]),
                            Sum([d \in Dim |-> Mul(r.dN[a, d], r.pulled[i, d])])))])]

\* C3: after the CPU integrate every entry of element_residual is its value
\* before the call plus the direct weighted contraction of the sources and
\* fluxes that were passed in, scaled by dv and pulled back once per point.
C3_IntegrateIsDirectContraction ==
  hcall.op = "integrate" =>
    LET D == DirectResidual(hcall.sources, hcall.fluxes, jacobians,
                            tparams.p, tparams.q, tparams.c)
    IN  \A i \in Comps(tparams.c), a \in NodeIds(tparams.p) :
          DofAt(element_residual, i, a, tparams.p)
            = Add(DofAt(hcall.element_residual, i, a, tparams.p), D[i, a])

\* an integrate with two components, a varying non-symmetric Jacobian and a
\* residual that already held contributions has run
C3_Witness ==
  /\ hcall.op = "integrate"
  /\ tparams.c = 2
  /\ tparams.q = 2
  /\ jacobians = SeededJacobians(2, tparams.q)
  /\ hcall.element_residual # ZeroDofs(tparams.p, tparams.c)
  /\ element_residual # hcall.element_residual

\* the residual an integrate of the overload of the last call leaves in r
IntegrateInto(r, ss, ff) ==
  IF hcall.op = "integrate"
    THEN integrate(ss, ff, jacobians, r, tparams.p, tparams.q, tparams.c).element_residual
    ELSE integrate_simd(ss, ff, r, tparams.p, tparams.q, tparams.c)

\* entry by entry sums of two buffers of the same shape
AddEntries(a, b) == [k \in DOMAIN a |-> Add(a[k], b[k])]

\* C16: integrate adds to the residual it is given: the residual after the
\* call is the residual before it plus what the same call computes from a zero
\* residual, and a further integrate of a second set of sources and fluxes
\* leaves what one integrate of the summed sources and fluxes leaves.
C16_IntegrateAccumulates ==
  hcall.op # "none" =>
    LET s2 == SeededSources(3, tparams.q, tparams.c)
        f2 == SeededFluxes(3, tparams.q, tparams.c)
    IN  /\ element_residual =
             AddEntries(hcall.element_residual,
                        IntegrateInto(ZeroDofs(tparams.p, tparams.c), hcall.sources, hcall.fluxes))
        /\ IntegrateInto(element_residual, s2, f2) =
             IntegrateInto(hcall.element_residual,
                           AddEntries(hcall.sources, s2), AddEntries(hcall.fluxes, f2))

\* a simd integrate of two components into a residual that already held
\* contributions has run
C16_Witness ==
  /\ hcall.op = "integrate_simd"
  /\ tparams.c = 2
  /\ hcall.element_residual # ZeroDofs(tparams.p, tparams.c)
  /\ element_residual # hcall.element_residual
  /\ IntegrateInto(ZeroDofs(tparams.p, tparams.c), hcall.sources, hcall.fluxes)
       # ZeroDofs(tparams.p, tparams.c)

\* C27: the CPU integrate with Jacobians leaves the caller's sources and
\* fluxes as they were passed in, and a second integrate call with the same
\* buffers, Jacobians and rule adds to the residual what the first call added.
C27_IntegrateLeavesSourcesAndFluxes ==
  hcall.op = "integrate" =>
    /\ sources = hcall.sources
    /\ fluxes = hcall.fluxes
    /\ integrate(sources, fluxes, jacobians, ZeroDofs(tparams.p, tparams.c),
                 tparams.p, tparams.q, tparams.c).element_residual
         = integrate(hcall.sources, hcall.fluxes, jacobians, ZeroDofs(tparams.p, tparams.c),
                     tparams.p, tparams.q, tparams.c).element_residual

\* the end-to-end fixture: one component of f(x) = x on a first-order element
\* with two points per dimension and the identity Jacobian at every point
EndToEndFixture ==
  /\ tparams = [p |-> 1, q |-> 2, c |-> 1, overload |-> "cpu"]
  /\ X = XCoordinateDofs(1, 1)
  /\ jacobians = SeededJacobians(0, 2)

\* C17: on the end-to-end fixture interpolate returns, at every quadrature
\* point, the value points1D[qx] and the gradient (1, 0, 0); and integrate of
\* the constant source 1 with zero flux into a zero residual leaves dof
\* contributions whose sum is the element volume 1.
C17_EndToEndScenario ==
  EndToEndFixture =>
    /\ values_and_derivatives.kind = "cpu" =>
         \A pt \in AllPoints(2) :
           /\ values_and_derivatives.value[pt[1], pt[2], pt[3], 0] = GaussLegendreNodes(2)[pt[3]]
           /\ values_and_derivatives.gradient[pt[1], pt[2], pt[3], 0, 0] = One
           /\ values_and_derivatives.gradient[pt[1], pt[2], pt[3], 0, 1] = Zero
           /\ values_and_derivatives.gradient[pt[1], pt[2], pt[3], 0, 2] = Zero
    /\ (/\ hcall.op = "integrate"
        /\ hcall.sources = UnitSources(2, 1)
        /\ hcall.fluxes = ZeroFluxes(2, 1)
        /\ hcall.element_residual = ZeroDofs(1, 1)) =>
         Sum([a \in NodeIds(1) |-> DofAt(element_residual, 0, a, 1)]) = One

\* interpolate and integrate have both run on the end-to-end fixture
C17_Witness ==
  /\ EndToEndFixture
  /\ values_and_derivatives.kind = "cpu"
  /\ hcall.op = "integrate"
  /\ hcall.sources = UnitSources(2, 1)
  /\ hcall.element_residual = ZeroDofs(1, 1)
  /\ element_residual # ZeroDofs(1, 1)

\* C4 (as claimed): after the CPU interpolate the gradient of every component
\* at every point is that component's reference gradient times inv(J), once.
C4_GradientTransformedOnce ==
  values_and_derivatives.kind = "cpu" =>
    LET DG == DirectGradients(X, tparams.p, tparams.q, tparams.c)
    IN  \A pt \in AllPoints(tparams.q) :
          LET phys == dot(DG[pt[1], pt[2], pt[3]],
                          inv(InterpolateJ(jacobians, pt[1], pt[2], pt[3])), Comps(tparams.c))
          IN  \A i \in Comps(tparams.c), d \in Dim :
                values_and_derivatives.gradient[pt[1], pt[2], pt[3], i, d] = phys[i, d]

\* the sum over all dofs of element_residual[dof] * X[dof]
ResidualDotDofs ==
  Sum([i \in Comps(tparams.c) |->
         Sum([a \in NodeIds(tparams.p) |->
                Mul(DofAt(element_residual, i, a, tparams.p), DofAt(X, i, a, tparams.p))])])

\* the sum over all points of w * det(J) * (s . value + f : gradient)
WeightedInnerProduct ==
  Sum([k \in PointIds(tparams.q) |->
         LET pt == PointAt(tparams.q, k)
         IN  Mul(IntegrateDv(jacobians, tparams.q, pt[1], pt[2], pt[3]),
                 Sum([i \in Comps(tparams.c) |->
                        Add(Mul(hcall.sources[pt[1], pt[2], pt[3], i],
                                values_and_derivatives.value[pt[1], pt[2], pt[3], i]),
                            Sum([d \in Dim |->
                                   Mul(hcall.fluxes[pt[1], pt[2], pt[3], i, d],
                                       values_and_derivatives.gradient[pt[1], pt[2], pt[3], i, d])]))]))])

\* C1 (as claimed): integrate is the transpose of interpolate for every
\* component count: starting from a zero residual, <integrate(s, f), u> equals
\* the weighted inner product of (s, f) with interpolate(u).
C1_AdjointProperty ==
  (/\ values_and_derivatives.kind = "cpu"
   /\ hcall.op = "integrate"
   /\ hcall.n = 1
   /\ hcall.element_residual = ZeroDofs(tparams.p, tparams.c))
    => ResidualDotDofs = WeightedInnerProduct

(***************************************************************************)
(* The tabulated quadrature rules.  A double literal of the table is kept  *)
(* to 18 decimals as <<integer part, six groups of three decimal digits>>: *)
(* 0.2113248654051871 is <<0, 211, 324, 865, 405, 187, 100>>.              *)
(***************************************************************************)
\* rule.points of the cases of "if (geom == mfem::Geometry::SEGMENT)", case n at index n
SegmentPoints ==
  <<
     << <<0, 500, 0, 0, 0, 0, 0>> >>,
     << <<0, 211, 324, 865, 405, 187, 100>>, <<0, 788, 675, 134, 594, 812, 900>> >>,
     << <<0, 112, 701, 665, 379, 258, 300>>, <<0, 500, 0, 0, 0, 0, 0>>, <<0, 887, 298, 334, 620, 742, 0>> >>,
     << <<0, 69, 431, 844, 202, 973, 700>>, <<0, 330, 9, 478, 207, 572, 0>>, <<0, 669, 990, 521, 792, 428, 0>>,
        <<0, 930, 568, 155, 797, 26, 0>> >>,
     << <<0, 46, 910, 77, 30, 668, 0>>, <<0, 230, 765, 344, 947, 158, 0>>, <<0, 500, 0, 0, 0, 0, 0>>,
        <<0, 769, 234, 655, 52, 842, 0>>, <<0, 953, 89, 922, 969, 332, 0>> >>,
     << <<0, 33, 765, 242, 898, 424, 0>>, <<0, 169, 395, 306, 766, 868, 0>>, <<0, 380, 690, 406, 958, 402, 0>>,
        <<0, 619, 309, 593, 41, 598, 0>>, <<0, 830, 604, 693, 233, 132, 0>>, <<0, 966, 234, 757, 101, 576, 0>> >>,
     << <<0, 25, 446, 43, 828, 620, 700>>, <<0, 129, 234, 407, 200, 303, 0>>, <<0, 297, 77, 424, 311, 301, 0>>,
        <<0, 500, 0, 0, 0, 0, 0>>, <<0, 702, 922, 575, 688, 699, 0>>, <<0, 870, 765, 592, 799, 700, 0>>,
        <<0, 974, 553, 956, 171, 380, 0>> >>,
     << <<0, 19, 855, 71, 751, 231, 900>>, <<0, 101, 666, 761, 293, 187, 0>>, <<0, 237, 233, 795, 41, 836, 0>>,
        <<0, 408, 282, 678, 752, 175, 0>>, <<0, 591, 717, 321, 247, 825, 0>>, <<0, 762, 766, 204, 958, 160, 0>>,
        <<0, 898, 333, 238, 706, 810, 0>>, <<0, 980, 144, 928, 248, 770, 0>> >>
  >>

\* rule.weights of the cases of "if (geom == mfem::Geometry::SEGMENT)", case n at index n
SegmentWeights ==
  <<
     << <<1, 0, 0, 0, 0, 0, 0>> >>,
     << <<0, 500, 0, 0, 0, 0, 0>>, <<0, 500, 0, 0, 0, 0, 0>> >>,
     << <<0, 277, 777, 777, 777, 778, 0>>, <<0, 444, 444, 444, 444, 444, 0>>, <<0, 277, 777, 777, 777, 778, 0>> >>,
     << <<0, 173, 927, 422, 568, 727, 0>>, <<0, 326, 72, 577, 431, 273, 0>>, <<0, 326, 72, 577, 431, 273, 0>>,
        <<0, 173, 927, 422, 568, 727, 0>> >>,
     << <<0, 118, 463, 442, 528, 95, 0>>, <<0, 239, 314, 335, 249, 683, 0>>, <<0, 284, 444, 444, 444, 444, 0>>,
        <<0, 239, 314, 335, 249, 683, 0>>, <<0, 118, 463, 442, 528, 95, 0>> >>,
     << <<0, 85, 662, 246, 189, 585, 0>>, <<0, 180, 380, 786, 524, 69, 0>>, <<0, 233, 956, 967, 286, 346, 0>>,
        <<0, 233, 956, 967, 286, 346, 0>>, <<0, 180, 380, 786, 524, 69, 0>>, <<0, 85, 662, 246, 189, 585, 0>> >>,
     << <<0, 64, 742, 483, 84, 434, 800>>, <<0, 139, 852, 695, 744, 638, 0>>, <<0, 190, 915, 25, 252, 559, 0>>,
        <<0, 208, 979, 591, 836, 735, 0>>, <<0, 190, 915, 25, 252, 559, 0>>, <<0, 139, 852, 695, 744, 638, 0>>,
        <<0, 64, 742, 483, 84, 434, 800>> >>,
     << <<0, 50, 614, 268, 145, 188, 100>>, <<0, 111, 190, 517, 226, 687, 0>>, <<0, 156, 853, 322, 938, 944, 0>>,
        <<0, 181, 341, 891, 689, 181, 0>>, <<0, 181, 341, 891, 689, 181, 0>>, <<0, 156, 853, 322, 938, 944, 0>>,
        <<0, 111, 190, 517, 226, 687, 0>>, <<0, 50, 614, 268, 145, 188, 100>> >>
  >>

\* rule.points of the cases of "if (geom == mfem::Geometry::TRIANGLE)", case n at index n
TrianglePoints ==
  <<
     << <<0, 333, 333, 333, 333, 333, 0>>, <<0, 333, 333, 333, 333, 333, 0>> >>,
     << <<0, 166, 666, 666, 666, 667, 0>>, <<0, 166, 666, 666, 666, 667, 0>>, <<0, 166, 666, 666, 666, 667, 0>>,
        <<0, 666, 666, 666, 666, 667, 0>>, <<0, 666, 666, 666, 666, 667, 0>>, <<0, 166, 666, 666, 666, 667, 0>> >>,
     << <<0, 91, 576, 213, 509, 780, 0>>, <<0, 91, 576, 213, 509, 780, 0>>, <<0, 91, 576, 213, 509, 780, 0>>,
        <<0, 816, 847, 572, 980, 440, 0>>, <<0, 816, 847, 572, 980, 440, 0>>, <<0, 91, 576, 213, 509, 780, 0>>,
        <<0, 108, 103, 18, 168, 71, 0>>, <<0, 445, 948, 490, 915, 964, 0>>, <<0, 445, 948, 490, 915, 964, 0>>,
        <<0, 108, 103, 18, 168, 71, 0>>, <<0, 445, 948, 490, 915, 964, 0>>, <<0, 445, 948, 490, 915, 964, 0>> >>,
     << <<0, 55, 564, 52, 669, 793, 0>>, <<0, 55, 564, 52, 669, 793, 0>>, <<0, 55, 564, 52, 669, 793, 0>>,
        <<0, 888, 871, 894, 660, 413, 0>>, <<0, 888, 871, 894, 660, 413, 0>>, <<0, 55, 564, 52, 669, 793, 0>>,
        <<0, 70, 255, 540, 518, 384, 0>>, <<0, 634, 210, 747, 745, 723, 0>>, <<0, 634, 210, 747, 745, 723, 0>>,
        <<0, 70, 255, 540, 518, 384, 0>>, <<0, 634, 210, 747, 745, 723, 0>>, <<0, 295, 533, 711, 735, 893, 0>>,
        <<0, 70, 255, 540, 518, 384, 0>>, <<0, 295, 533, 711, 735, 893, 0>>, <<0, 295, 533, 711, 735, 893, 0>>,
        <<0, 70, 255, 540, 518, 384, 0>>, <<0, 295, 533, 711, 735, 893, 0>>, <<0, 634, 210, 747, 745, 723, 0>>,
        <<0, 333, 333, 333, 333, 333, 0>>, <<0, 333, 333, 333, 333, 333, 0>> >>,
     << <<0, 35, 870, 877, 695, 734, 1>>, <<0, 35, 870, 877, 695, 734, 1>>, <<0, 35, 870, 877, 695, 734, 1>>,
        <<0, 928, 258, 244, 608, 533, 12>>, <<0, 928, 258, 244, 608, 533, 12>>, <<0, 35, 870, 877, 695, 734, 1>>,
        <<0, 241, 729, 395, 767, 967, 9>>, <<0, 241, 729, 395, 767, 967, 9>>, <<0, 241, 729, 395, 767, 967, 9>>,
        <<0, 516, 541, 208, 464, 66, 37>>, <<0, 516, 541, 208, 464, 66, 37>>, <<0, 241, 729, 395, 767, 967, 9>>,
        <<0, 51, 382, 424, 445, 842, 997>>, <<0, 474, 308, 787, 777, 79, 22>>, <<0, 474, 308, 787, 777, 79, 22>>,
        <<0, 51, 382, 424, 445, 842, 997>>, <<0, 474, 308, 787, 777, 79, 22>>, <<0, 474, 308, 787, 777, 79, 22>>,
        <<0, 47, 312, 487, 11, 716, 3>>, <<0, 751, 183, 631, 106, 484, 7>>, <<0, 751, 183, 631, 106, 484, 7>>,
        <<0, 47, 312, 487, 11, 716, 3>>, <<0, 751, 183, 631, 106, 484, 7>>, <<0, 201, 503, 881, 881, 799, 990>>,
        <<0, 47, 312, 487, 11, 716, 3>>, <<0, 201, 503, 881, 881, 799, 990>>, <<0, 201, 503, 881, 881, 799, 990>>,
        <<0, 47, 312, 487, 11, 716, 3>>, <<0, 201, 503, 881, 881, 799, 990>>, <<0, 751, 183, 631, 106, 484, 7>> >>
  >>

\* rule.weights of the cases of "if (geom == mfem::Geometry::TRIANGLE)", case n at index n
TriangleWeights ==
  <<
     <<>>,
     <<>>,
     <<>>,
     <<>>,
     <<>>
  >>

\* rule.points of the cases of "if (geom == mfem::Geometry::TETRAHEDRON)", case n at index n
TetrahedronPoints ==
  <<
     << <<0, 250, 0, 0, 0, 0, 0>>, <<0, 250, 0, 0, 0, 0, 0>>, <<0, 250, 0, 0, 0, 0, 0>> >>,
     << <<0, 585, 410, 196, 624, 967, 936>>, <<0, 138, 196, 601, 125, 11, 8>>, <<0, 138, 196, 601, 125, 11, 8>>,
        <<0, 138, 196, 601, 125, 11, 8>>, <<0, 585, 410, 196, 624, 967, 936>>, <<0, 138, 196, 601, 125, 11, 8>>,
        <<0, 138, 196, 601, 125, 11, 8>>, <<0, 138, 196, 601, 125, 11, 8>>, <<0, 585, 410, 196, 624, 967, 936>>,
        <<0, 138, 196, 601, 125, 11, 8>>, <<0, 138, 196, 601, 125, 11, 8>>, <<0, 138, 196, 601, 125, 11, 8>> >>,
     << <<0, 778, 495, 294, 821, 329, 920>>, <<0, 73, 834, 901, 726, 223, 398>>, <<0, 73, 834, 901, 726, 223, 398>>,
        <<0, 73, 834, 901, 726, 223, 398>>, <<0, 778, 495, 294, 821, 329, 920>>, <<0, 73, 834, 901, 726, 223, 398>>,
        <<0, 73, 834, 901, 726, 223, 398>>, <<0, 73, 834, 901, 726, 223, 398>>, <<0, 778, 495, 294, 821, 329, 920>>,
        <<0, 73, 834, 901, 726, 223, 398>>, <<0, 73, 834, 901, 726, 223, 398>>, <<0, 73, 834, 901, 726, 223, 398>>,
        <<0, 406, 244, 343, 884, 51, 8>>, <<0, 406, 244, 343, 884, 51, 8>>, <<0, 93, 755, 656, 115, 949, 107>>,
        <<0, 406, 244, 343, 884, 51, 8>>, <<0, 93, 755, 656, 115, 949, 107>>, <<0, 406, 244, 343, 884, 51, 8>>,
        <<0, 406, 244, 343, 884, 51, 8>>, <<0, 93, 755, 656, 115, 949, 107>>, <<0, 93, 755, 656, 115, 949, 107>>,
        <<0, 93, 755, 656, 115, 949, 107>>, <<0, 406, 244, 343, 884, 51, 8>>, <<0, 406, 244, 343, 884, 51, 8>>,
        <<0, 93, 755, 656, 115, 949, 107>>, <<0, 406, 244, 343, 884, 51, 8>>, <<0, 93, 755, 656, 115, 949, 107>>,
        <<0, 93, 755, 656, 115, 949, 107>>, <<0, 93, 755, 656, 115, 949, 107>>, <<0, 406, 244, 343, 884, 51, 8>> >>,
     << <<0, 902, 942, 215, 818, 267, 904>>, <<0, 32, 352, 594, 727, 243, 898>>, <<0, 32, 352, 594, 727, 243, 898>>,
        <<0, 32, 352, 594, 727, 243, 898>>, <<0, 902, 942, 215, 818, 267, 904>>, <<0, 32, 352, 594, 727, 243, 898>>,
        <<0, 32, 352, 594, 727, 243, 898>>, <<0, 32, 352, 594, 727, 243, 898>>, <<0, 902, 942, 215, 818, 267, 904>>,
        <<0, 32, 352, 594, 727, 243, 898>>, <<0, 32, 352, 594, 727, 243, 898>>, <<0, 32, 352, 594, 727, 243, 898>>,
        <<0, 262, 682, 583, 887, 778, 976>>, <<0, 616, 596, 533, 61, 936, 896>>, <<0, 60, 360, 441, 525, 142, 93>>,
        <<0, 616, 596, 533, 61, 936, 896>>, <<0, 262, 682, 583, 887, 778, 976>>, <<0, 60, 360, 441, 525, 142, 93>>,
        <<0, 262, 682, 583, 887, 778, 976>>, <<0, 60, 360, 441, 525, 142, 93>>, <<0, 616, 596, 533, 61, 936, 896>>,
        <<0, 616, 596, 533, 61, 936, 896>>, <<0, 60, 360, 441, 525, 142, 93>>, <<0, 262, 682, 583, 887, 778, 976>>,
        <<0, 262, 682, 583, 887, 778, 976>>, <<0, 60, 360, 441, 525, 142, 93>>, <<0, 60, 360, 441, 525, 142, 93>>,
        <<0, 616, 596, 533, 61, 936, 896>>, <<0, 60, 360, 441, 525, 142, 93>>, <<0, 60, 360, 441, 525, 142, 93>>,
        <<0, 60, 360, 441, 525, 142, 93>>, <<0, 262, 682, 583, 887, 778, 976>>, <<0, 616, 596, 533, 61, 936, 896>>,
        <<0, 60, 360, 441, 525, 142, 93>>, <<0, 616, 596, 533, 61, 936, 896>>, <<0, 262, 682, 583, 887, 778, 976>>,
        <<0, 60, 360, 441, 525, 142, 93>>, <<0, 262, 682, 583, 887, 778, 976>>, <<0, 60, 360, 441, 525, 142, 93>>,
        <<0, 60, 360, 441, 525, 142, 93>>, <<0, 616, 596, 533, 61, 936, 896>>, <<0, 60, 360, 441, 525, 142, 93>>,
        <<0, 60, 360, 441, 525, 142, 93>>, <<0, 60, 360, 441, 525, 142, 93>>, <<0, 262, 682, 583, 887, 778, 976>>,
        <<0, 60, 360, 441, 525, 142, 93>>, <<0, 60, 360, 441, 525, 142, 93>>, <<0, 616, 596, 533, 61, 936, 896>>,
        <<0, 309, 769, 304, 272, 861, 952>>, <<0, 309, 769, 304, 272, 861, 952>>, <<0, 309, 769, 304, 272, 861, 952>>,
        <<0, 309, 769, 304, 272, 861, 952>>, <<0, 309, 769, 304, 272, 861, 952>>, <<0, 70, 692, 87, 181, 412, 902>>,
        <<0, 309, 769, 304, 272, 861, 952>>, <<0, 70, 692, 87, 181, 412, 902>>, <<0, 309, 769, 304, 272, 861, 952>>,
        <<0, 70, 692, 87, 181, 412, 902>>, <<0, 309, 769, 304, 272, 861, 952>>, <<0, 309, 769, 304, 272, 861, 952>> >>,
     << <<0, 919, 789, 673, 336, 880, 0>>, <<0, 26, 736, 775, 554, 373, 498>>, <<0, 26, 736, 775, 554, 373, 498>>,
        <<0, 26, 736, 775, 554, 373, 498>>, <<0, 919, 789, 673, 336, 880, 0>>, <<0, 26, 736, 775, 554, 373, 498>>,
        <<0, 26, 736, 775, 554, 373, 498>>, <<0, 26, 736, 775, 554, 373, 498>>, <<0, 919, 789, 673, 336, 880, 0>>,
        <<0, 26, 736, 775, 554, 373, 498>>, <<0, 26, 736, 775, 554, 373, 498>>, <<0, 26, 736, 775, 554, 373, 498>>,
        <<0, 174, 35, 630, 246, 894, 16>>, <<0, 747, 759, 888, 481, 809, 24>>, <<0, 39, 102, 240, 635, 648, 800>>,
        <<0, 747, 759, 888, 481, 809, 24>>, <<0, 174, 35, 630, 246, 894, 16>>, <<0, 39, 102, 240, 635, 648, 800>>,
        <<0, 174, 35, 630, 246, 894, 16>>, <<0, 39, 102, 240, 635, 648, 800>>, <<0, 747, 759, 888, 481, 809, 24>>,
        <<0, 747, 759, 888, 481, 809, 24>>, <<0, 39, 102, 240, 635, 648, 800>>, <<0, 174, 35, 630, 246, 894, 16>>,
        <<0, 174, 35, 630, 246, 894, 16>>, <<0, 39, 102, 240, 635, 648, 800>>, <<0, 39, 102, 240, 635, 648, 800>>,
        <<0, 747, 759, 888, 481, 809, 24>>, <<0, 39, 102, 240, 635, 648, 800>>, <<0, 39, 102, 240, 635, 648, 800>>,
        <<0, 39, 102, 240, 635, 648, 800>>, <<0, 174, 35, 630, 246, 894, 16>>, <<0, 747, 759, 888, 481, 809, 24>>,
        <<0, 39, 102, 240, 635, 648, 800>>, <<0, 747, 759, 888, 481, 809, 24>>, <<0, 174, 35, 630, 246, 894, 16>>,
        <<0, 39, 102, 240, 635, 648, 800>>, <<0, 174, 35, 630, 246, 894, 16>>, <<0, 39, 102, 240, 635, 648, 800>>,
        <<0, 39, 102, 240, 635, 648, 800>>, <<0, 747, 759, 888, 481, 809, 24>>, <<0, 39, 102, 240, 635, 648, 800>>,
        <<0, 39, 102, 240, 635, 648, 800>>, <<0, 39, 102, 240, 635, 648, 800>>, <<0, 174, 35, 630, 246, 894, 16>>,
        <<0, 39, 102, 240, 635, 648, 800>>, <<0, 39, 102, 240, 635, 648, 800>>, <<0, 747, 759, 888, 481, 809, 24>>,
        <<0, 454, 754, 599, 984, 483, 8>>, <<0, 454, 754, 599, 984, 483, 8>>, <<0, 45, 245, 400, 15, 517, 197>>,
        <<0, 454, 754, 599, 984, 483, 8>>, <<0, 45, 245, 400, 15, 517, 197>>, <<0, 454, 754, 599, 984, 483, 8>>,
        <<0, 454, 754, 599, 984, 483, 8>>, <<0, 45, 245, 400, 15, 517, 197>>, <<0, 45, 245, 400, 15, 517, 197>>,
        <<0, 45, 245, 400, 15, 517, 197>>, <<0, 454, 754, 599, 984, 483, 8>>, <<0, 454, 754, 599, 984, 483, 8>>,
        <<0, 45, 245, 400, 15, 517, 197>>, <<0, 454, 754, 599, 984, 483, 8>>, <<0, 45, 245, 400, 15, 517, 197>>,
        <<0, 45, 245, 400, 15, 517, 197>>, <<0, 45, 245, 400, 15, 517, 197>>, <<0, 454, 754, 599, 984, 483, 8>>,
        <<0, 503, 118, 645, 14, 598, 16>>, <<0, 223, 201, 37, 962, 315, 8>>, <<0, 223, 201, 37, 962, 315, 8>>,
        <<0, 223, 201, 37, 962, 315, 8>>, <<0, 503, 118, 645, 14, 598, 16>>, <<0, 223, 201, 37, 962, 315, 8>>,
        <<0, 223, 201, 37, 962, 315, 8>>, <<0, 223, 201, 37, 962, 315, 8>>, <<0, 503, 118, 645, 14, 598, 16>>,
        <<0, 503, 118, 645, 14, 598, 16>>, <<0, 223, 201, 37, 962, 315, 8>>, <<0, 50, 479, 279, 60, 772, 0>>,
        <<0, 223, 201, 37, 962, 315, 8>>, <<0, 503, 118, 645, 14, 598, 16>>, <<0, 50, 479, 279, 60, 772, 0>>,
        <<0, 223, 201, 37, 962, 315, 8>>, <<0, 223, 201, 37, 962, 315, 8>>, <<0, 50, 479, 279, 60, 772, 0>>,
        <<0, 503, 118, 645, 14, 598, 16>>, <<0, 50, 479, 279, 60, 772, 0>>, <<0, 223, 201, 37, 962, 315, 8>>,
        <<0, 223, 201, 37, 962, 315, 8>>, <<0, 50, 479, 279, 60, 772, 0>>, <<0, 503, 118, 645, 14, 598, 16>>,
        <<0, 223, 201, 37, 962, 315, 8>>, <<0, 50, 479, 279, 60, 772, 0>>, <<0, 223, 201, 37, 962, 315, 8>>,
        <<0, 50, 479, 279, 60, 772, 0>>, <<0, 503, 118, 645, 14, 598, 16>>, <<0, 223, 201, 37, 962, 315, 8>>,
        <<0, 50, 479, 279, 60, 772, 0>>, <<0, 223, 201, 37, 962, 315, 8>>, <<0, 503, 118, 645, 14, 598, 16>>,
        <<0, 50, 479, 279, 60, 772, 0>>, <<0, 223, 201, 37, 962, 315, 8>>, <<0, 223, 201, 37, 962, 315, 8>>,
        <<0, 250, 0, 0, 0, 0, 0>>, <<0, 250, 0, 0, 0, 0, 0>>, <<0, 250, 0, 0, 0, 0, 0>> >>,
     << <<0, 955, 143, 804, 540, 822, 16>>, <<0, 14, 952, 65, 153, 59, 200>>, <<0, 14, 952, 65, 153, 59, 200>>,
        <<0, 14, 952, 65, 153, 59, 200>>, <<0, 955, 143, 804, 540, 822, 16>>, <<0, 14, 952, 65, 153, 59, 200>>,
        <<0, 14, 952, 65, 153, 59, 200>>, <<0, 14, 952, 65, 153, 59, 200>>, <<0, 955, 143, 804, 540, 822, 16>>,
        <<0, 14, 952, 65, 153, 59, 200>>, <<0, 14, 952, 65, 153, 59, 200>>, <<0, 14, 952, 65, 153, 59, 200>>,
        <<0, 779, 976, 8, 441, 539, 968>>, <<0, 151, 831, 949, 165, 936, 992>>, <<0, 34, 96, 21, 196, 261, 498>>,
        <<0, 151, 831, 949, 165, 936, 992>>, <<0, 779, 976, 8, 441, 539, 968>>, <<0, 34, 96, 21, 196, 261, 498>>,
        <<0, 779, 976, 8, 441, 539, 968>>, <<0, 34, 96, 21, 196, 261, 498>>, <<0, 151, 831, 949, 165, 936, 992>>,
        <<0, 151, 831, 949, 165, 936, 992>>, <<0, 34, 96, 21, 196, 261, 498>>, <<0, 779, 976, 8, 441, 539, 968>>,
        <<0, 779, 976, 8, 441, 539, 968>>, <<0, 34, 96, 21, 196, 261, 498>>, <<0, 34, 96, 21, 196, 261, 498>>,
        <<0, 151, 831, 949, 165, 936, 992>>, <<0, 34, 96, 21, 196, 261, 498>>, <<0, 34, 96, 21, 196, 261, 498>>,
        <<0, 34, 96, 21, 196, 261, 498>>, <<0, 779, 976, 8, 441, 539, 968>>, <<0, 151, 831, 949, 165, 936, 992>>,
        <<0, 34, 96, 21, 196, 261, 498>>, <<0, 151, 831, 949, 165, 936, 992>>, <<0, 779, 976, 8, 441, 539, 968>>,
        <<0, 34, 96, 21, 196, 261, 498>>, <<0, 779, 976, 8, 441, 539, 968>>, <<0, 34, 96, 21, 196, 261, 498>>,
        <<0, 34, 96, 21, 196, 261, 498>>, <<0, 151, 831, 949, 165, 936, 992>>, <<0, 34, 96, 21, 196, 261, 498>>,
        <<0, 34, 96, 21, 196, 261, 498>>, <<0, 34, 96, 21, 196, 261, 498>>, <<0, 779, 976, 8, 441, 539, 968>>,
        <<0, 34, 96, 21, 196, 261, 498>>, <<0, 34, 96, 21, 196, 261, 498>>, <<0, 151, 831, 949, 165, 936, 992>>,
        <<0, 354, 934, 56, 63, 979, 8>>, <<0, 552, 655, 643, 106, 17, 24>>, <<0, 46, 205, 150, 415, 1, 702>>,
        <<0, 552, 655, 643, 106, 17, 24>>, <<0, 354, 934, 56, 63, 979, 8>>, <<0, 46, 205, 150, 415, 1, 702>>,
        <<0, 354, 934, 56, 63, 979, 8>>, <<0, 46, 205, 150, 415, 1, 702>>, <<0, 552, 655, 643, 106, 17, 24>>,
        <<0, 552, 655, 643, 106, 17, 24>>, <<0, 46, 205, 150, 415, 1, 702>>, <<0, 354, 934, 56, 63, 979, 8>>,
        <<0, 354, 934, 56, 63, 979, 8>>, <<0, 46, 205, 150, 415, 1, 702>>, <<0, 46, 205, 150, 415, 1, 702>>,
        <<0, 552, 655, 643, 106, 17, 24>>, <<0, 46, 205, 150, 415, 1, 702>>, <<0, 46, 205, 150, 415, 1, 702>>,
        <<0, 46, 205, 150, 415, 1, 702>>, <<0, 354, 934, 56, 63, 979, 8>>, <<0, 552, 655, 643, 106, 17, 24>>,
        <<0, 46, 205, 150, 415, 1, 702>>, <<0, 552, 655, 643, 106, 17, 24>>, <<0, 354, 934, 56, 63, 979, 8>>,
        <<0, 46, 205, 150, 415, 1, 702>>, <<0, 354, 934, 56, 63, 979, 8>>, <<0, 46, 205, 150, 415, 1, 702>>,
        <<0, 46, 205, 150, 415, 1, 702>>, <<0, 552, 655, 643, 106, 17, 24>>, <<0, 46, 205, 150, 415, 1, 702>>,
        <<0, 46, 205, 150, 415, 1, 702>>, <<0, 46, 205, 150, 415, 1, 702>>, <<0, 354, 934, 56, 63, 979, 8>>,
        <<0, 46, 205, 150, 415, 1, 702>>, <<0, 46, 205, 150, 415, 1, 702>>, <<0, 552, 655, 643, 106, 17, 24>>,
        <<0, 538, 104, 322, 888, 2, 48>>, <<0, 228, 190, 461, 68, 760, 992>>, <<0, 228, 190, 461, 68, 760, 992>>,
        <<0, 228, 190, 461, 68, 760, 992>>, <<0, 538, 104, 322, 888, 2, 48>>, <<0, 228, 190, 461, 68, 760, 992>>,
        <<0, 228, 190, 461, 68, 760, 992>>, <<0, 228, 190, 461, 68, 760, 992>>, <<0, 538, 104, 322, 888, 2, 48>>,
        <<0, 538, 104, 322, 888, 2, 48>>, <<0, 228, 190, 461, 68, 760, 992>>, <<0, 5, 514, 754, 974, 477, 500>>,
        <<0, 228, 190, 461, 68, 760, 992>>, <<0, 538, 104, 322, 888, 2, 48>>, <<0, 5, 514, 754, 974, 477, 500>>,
        <<0, 228, 190, 461, 68, 760, 992>>, <<0, 228, 190, 461, 68, 760, 992>>, <<0, 5, 514, 754, 974, 477, 500>>,
        <<0, 538, 104, 322, 888, 2, 48>>, <<0, 5, 514, 754, 974, 477, 500>>, <<0, 228, 190, 461, 68, 760, 992>>,
        <<0, 228, 190, 461, 68, 760, 992>>, <<0, 5, 514, 754, 974, 477, 500>>, <<0, 538, 104, 322, 888, 2, 48>>,
        <<0, 228, 190, 461, 68, 760, 992>>, <<0, 5, 514, 754, 974, 477, 500>>, <<0, 228, 190, 461, 68, 760, 992>>,
        <<0, 5, 514, 754, 974, 477, 500>>, <<0, 538, 104, 322, 888, 2, 48>>, <<0, 228, 190, 461, 68, 760, 992>>,
        <<0, 5, 514, 754, 974, 477, 500>>, <<0, 228, 190, 461, 68, 760, 992>>, <<0, 538, 104, 322, 888, 2, 48>>,
        <<0, 5, 514, 754, 974, 477, 500>>, <<0, 228, 190, 461, 68, 760, 992>>, <<0, 228, 190, 461, 68, 760, 992>>,
        <<0, 196, 183, 759, 574, 560, 0>>, <<0, 352, 305, 260, 87, 993, 984>>, <<0, 352, 305, 260, 87, 993, 984>>,
        <<0, 352, 305, 260, 87, 993, 984>>, <<0, 196, 183, 759, 574, 560, 0>>, <<0, 352, 305, 260, 87, 993, 984>>,
        <<0, 352, 305, 260, 87, 993, 984>>, <<0, 352, 305, 260, 87, 993, 984>>, <<0, 196, 183, 759, 574, 560, 0>>,
        <<0, 196, 183, 759, 574, 560, 0>>, <<0, 352, 305, 260, 87, 993, 984>>, <<0, 99, 205, 720, 249, 453, 5>>,
        <<0, 352, 305, 260, 87, 993, 984>>, <<0, 196, 183, 759, 574, 560, 0>>, <<0, 99, 205, 720, 249, 453, 5>>,
        <<0, 352, 305, 260, 87, 993, 984>>, <<0, 352, 305, 260, 87, 993, 984>>, <<0, 99, 205, 720, 249, 453, 5>>,
        <<0, 196, 183, 759, 574, 560, 0>>, <<0, 99, 205, 720, 249, 453, 5>>, <<0, 352, 305, 260, 87, 993, 984>>,
        <<0, 352, 305, 260, 87, 993, 984>>, <<0, 99, 205, 720, 249, 453, 5>>, <<0, 196, 183, 759, 574, 560, 0>>,
        <<0, 352, 305, 260, 87, 993, 984>>, <<0, 99, 205, 720, 249, 453, 5>>, <<0, 352, 305, 260, 87, 993, 984>>,
        <<0, 99, 205, 720, 249, 453, 5>>, <<0, 196, 183, 759, 574, 560, 0>>, <<0, 352, 305, 260, 87, 993, 984>>,
        <<0, 99, 205, 720, 249, 453, 5>>, <<0, 352, 305, 260, 87, 993, 984>>, <<0, 196, 183, 759, 574, 560, 0>>,
        <<0, 99, 205, 720, 249, 453, 5>>, <<0, 352, 305, 260, 87, 993, 984>>, <<0, 352, 305, 260, 87, 993, 984>>,
        <<0, 596, 564, 995, 621, 16, 960>>, <<0, 134, 478, 334, 792, 994, 16>>, <<0, 134, 478, 334, 792, 994, 16>>,
        <<0, 134, 478, 334, 792, 994, 16>>, <<0, 596, 564, 995, 621, 16, 960>>, <<0, 134, 478, 334, 792, 994, 16>>,
        <<0, 134, 478, 334, 792, 994, 16>>, <<0, 134, 478, 334, 792, 994, 16>>, <<0, 596, 564, 995, 621, 16, 960>>,
        <<0, 134, 478, 334, 792, 994, 16>>, <<0, 134, 478, 334, 792, 994, 16>>, <<0, 134, 478, 334, 792, 994, 16>> >>
  >>

\* rule.weights of the cases of "if (geom == mfem::Geometry::TETRAHEDRON)", case n at index n
TetrahedronWeights ==
  <<
     <<>>,
     <<>>,
     <<>>,
     <<>>,
     <<>>,
     <<>>
  >>


\* the geometries of mfem::Geometry::Type
Geometries == {"POINT", "SEGMENT", "TRIANGLE", "SQUARE", "TETRAHEDRON", "CUBE", "PRISM"}

\* the rule function without "case 8" in the SEGMENT switch
GaussLegendreRule_SevenSegmentCases(geom, n) ==
  IF geom = "SEGMENT" /\ n \in 1 .. 7
    THEN [points |-> SegmentPoints[n], weights |-> SegmentWeights[n]]
  ELSE IF geom = "TRIANGLE" /\ n \in 1 .. 5
    THEN [points |-> TrianglePoints[n], weights |-> TriangleWeights[n]]
  ELSE IF geom = "TETRAHEDRON" /\ n \in 1 .. 6
    THEN [points |-> TetrahedronPoints[n], weights |-> TetrahedronWeights[n]]
  ELSE EmptyRule

\* the rule function with the segment weights of the interval [-1, 1], twice
\* those of [0, 1]; the limbs of a doubled weight are left unnormalised
GaussLegendreRule_WeightsOnSymmetricInterval(geom, n) ==
  IF geom = "SEGMENT" /\ n \in 1 .. 8
    THEN [points |-> SegmentPoints[n],
          weights |-> [i \in 1 .. n |-> [k \in 1 .. 7 |-> 2 * SegmentWeights[n][i][k]]]]
  ELSE IF geom = "TRIANGLE" /\ n \in 1 .. 5
    THEN [points |-> TrianglePoints[n], weights |-> TriangleWeights[n]]
  ELSE IF geom = "TETRAHEDRON" /\ n \in 1 .. 6
    THEN [points |-> TetrahedronPoints[n], weights |-> TetrahedronWeights[n]]
  ELSE EmptyRule

\* GaussLegendreRule(geom, PointsPerDimension{n}): a default-constructed rule
\* filled in by the case of the switch of the geometry, if there is one
GaussLegendreRule(geom, n) ==
  IF geom = "SEGMENT" /\ n \in 1 .. 8
    THEN [points |-> SegmentPoints[n], weights |-> SegmentWeights[n]]
  ELSE IF geom = "TRIANGLE" /\ n \in 1 .. 5
    THEN [points |-> TrianglePoints[n], weights |-> TriangleWeights[n]]
  ELSE IF geom = "TETRAHEDRON" /\ n \in 1 .. 6
    THEN [points |-> TetrahedronPoints[n], weights |-> TetrahedronWeights[n]]
  ELSE EmptyRule

\* static std::map<mfem::Geometry::Type, std::vector<uint32_t>>
\* polynomial_order_LUT; a sequence's element k is the vector's element k - 1
polynomial_order_LUT ==
  [geom \in {"SEGMENT", "TRIANGLE", "TETRAHEDRON"} |-> <<1, 2, 3, 4, 5>>]

\* polynomial_order_LUT[geom]: std::map::operator[] returns the mapped vector,
\* and inserts an empty one for a key the map does not hold
LutVector(geom) ==
  IF geom \in DOMAIN polynomial_order_LUT THEN polynomial_order_LUT[geom] ELSE <<>>

\* bounds of the requests
MaxPointsPerDimension == 9
MaxRuleCalls == 2
MaxPolynomialOrder == 6

QuadInit ==
  /\ QuadIdle
  /\ ThermalIdle
  /\ GpuIdle
  /\ HexIdle
  /\ FunIdle
  /\ SolidIdle
  /\ UtilIdle

\* auto rule = GaussLegendreRule(geom, PointsPerDimension{q})
CallGaussLegendreRule ==
  \E geom \in Geometries, q \in 0 .. MaxPointsPerDimension :
    /\ rule_request.n < MaxRuleCalls
    /\ lut_read.outcome # "crash"
    /\ rule' = GaussLegendreRule(geom, q)
    /\ rule_request' = [geom |-> geom, q |-> q, n |-> rule_request.n + 1]
    /\ lut_read' = NoLutRead
    /\ UNCHANGED <<hexVars, funVars, solidVars, thermalVars, gpuVars, utilVars>>

\* auto rule = GaussLegendreRule(geom, PolynomialOrder{p}): the vector of the
\* geometry is indexed with p unchecked.  An index inside the vector reads its
\* element; an index outside it is undefined behaviour: the read faults, or it
\* yields whatever lies behind the vector's storage, and the rule function is
\* then called with that number of points.
CallGaussLegendreRuleByOrder ==
  \E geom \in Geometries, p \in 0 .. MaxPolynomialOrder :
    LET v == LutVector(geom)
        read(outcome) == [geom |-> geom, index |-> p, size |-> Len(v), outcome |-> outcome]
    IN  /\ rule_request.n < MaxRuleCalls
        /\ lut_read.outcome # "crash"
        /\ IF p < Len(v)
             THEN /\ rule' = GaussLegendreRule(geom, v[p + 1])
                  /\ rule_request' = [geom |-> geom, q |-> v[p + 1], n |-> rule_request.n + 1]
                  /\ lut_read' = read("element")
             ELSE \/ /\ rule' = EmptyRule
                     /\ rule_request' = [geom |-> "none", q |-> 0, n |-> rule_request.n + 1]
                     /\ lut_read' = read("crash")
                  \/ \E q \in 0 .. MaxPointsPerDimension :
                       /\ rule' = GaussLegendreRule(geom, q)
                       /\ rule_request' = [geom |-> geom, q |-> q, n |-> rule_request.n + 1]
                       /\ lut_read' = read("garbage")
        /\ UNCHANGED <<hexVars, funVars, solidVars, thermalVars, gpuVars, utilVars>>

QuadNext ==
  \/ CallGaussLegendreRule
  \/ CallGaussLegendreRuleByOrder

SpecQuad == QuadInit /\ [][QuadNext]_vars

\* C9: a segment rule asked for with q in 1..8 has exactly q points and q
\* weights; asked for with any other q it has no points and no weights.
C9_SegmentRuleSize ==
  rule_request.geom = "SEGMENT" =>
    IF rule_request.q \in 1 .. 8
      THEN Len(rule.points) = rule_request.q /\ Len(rule.weights) = rule_request.q
      ELSE rule.points = <<>> /\ rule.weights = <<>>

\* the 8-point segment rule has been returned
C9_Witness ==
  /\ rule_request.geom = "SEGMENT"
  /\ rule_request.q = 8
  /\ Len(rule.points) = 8
  /\ Len(rule.weights) = 8

\* the raw limb products of two decimals: coefficient k of 1000^-k, k in 0..12
DecCoefficients(a, b) ==
  [k \in 0 .. 12 |->
     LET lo == IF k > 6 THEN k - 6 ELSE 0
         hi == IF k > 6 THEN 6 ELSE k
         term[i \in lo - 1 .. hi] ==
           IF i = lo - 1 THEN 0 ELSE term[i - 1] + a[i + 1] * b[k - i + 1]
     IN  term[hi]]

\* the limbs 0..k of the coefficients, carries propagated from limb 12 upwards
RECURSIVE DecNormalise(_, _, _)
DecNormalise(coeff, k, carry) ==
  LET v == coeff[k] + carry
  IN  IF k = 0 THEN <<v>>
      ELSE Append(DecNormalise(coeff, k - 1, v \div 1000), v % 1000)

\* the product of two decimals, cut to 18 decimals
DecMul(a, b) == SubSeq(DecNormalise(DecCoefficients(a, b), 12, 0), 1, 7)

RECURSIVE Power(_, _)
Power(b, e) == IF e = 0 THEN 1 ELSE b * Power(b, e - 1)

\* the weights of the outer product of a 1D rule with itself, qx fastest
OuterProductWeights(w, dim) ==
  LET q == Len(w)
  IN  [k \in 1 .. Power(q, dim) |->
         LET qx == (k - 1) % q
             qy == ((k - 1) \div q) % q
             qz == (k - 1) \div (q * q)
         IN  IF dim = 2 THEN DecMul(w[qx + 1], w[qy + 1])
             ELSE DecMul(DecMul(w[qx + 1], w[qy + 1]), w[qz + 1])]

\* C10 (as claimed): the rule returned for a quadrilateral or a hexahedron
\* and q in 1..8 is not empty: it has q^2 or q^3 points, and its weights are
\* the products of the weights of the q-point segment rule.
C10_TensorProductRule ==
  (rule_request.geom \in {"SQUARE", "CUBE"} /\ rule_request.q \in 1 .. 8) =>
    LET dim == IF rule_request.geom = "SQUARE" THEN 2 ELSE 3
    IN  /\ rule # EmptyRule
        /\ Len(rule.points) = dim * Power(rule_request.q, dim)
        /\ rule.weights = OuterProductWeights(SegmentWeights[rule_request.q], dim)

\* the sum of a sequence of decimals, limb by limb, carries propagated once
DecSum(ws) ==
  LET column[k \in 0 .. 6] ==
        LET partial[i \in 0 .. Len(ws)] ==
              IF i = 0 THEN 0 ELSE partial[i - 1] + ws[i][k + 1]
        IN  partial[Len(ws)]
  IN  DecNormalise(column, 6, 0)

\* a - b; the integer limb is negative when a < b
DecDiff(a, b) == DecNormalise([k \in 0 .. 6 |-> a[k + 1] - b[k + 1]], 6, 0)

\* |a - b| < 1e-14
DecWithinTolerance(a, b) ==
  LET d == IF DecDiff(a, b)[1] >= 0 THEN DecDiff(a, b) ELSE DecDiff(b, a)
  IN  /\ \A k \in 1 .. 5 : d[k] = 0
      /\ d[6] < 10

\* the rule request is one of the tabulated TRIANGLE or TETRAHEDRON cases
SimplexRuleTabulated ==
  \/ rule_request.geom = "TRIANGLE" /\ rule_request.q \in 1 .. 5
  \/ rule_request.geom = "TETRAHEDRON" /\ rule_request.q \in 1 .. 6

\* C11 (as claimed): a tabulated triangle or tetrahedron rule has one weight
\* per point, and its weights sum to the volume of the reference simplex:
\* 1/2 for the triangle, 1/6 for the tetrahedron.
C11_SimplexWeightsSumToVolume ==
  SimplexRuleTabulated =>
    LET triangle == rule_request.geom = "TRIANGLE"
        dim == IF triangle THEN 2 ELSE 3
        volume == IF triangle THEN <<0, 500, 0, 0, 0, 0, 0>>
                  ELSE <<0, 166, 666, 666, 666, 666, 667>>
    IN  /\ Len(rule.points) \div dim = Len(rule.weights)
        /\ DecWithinTolerance(DecSum(rule.weights), volume)

\* C12: the weights of every tabulated segment rule (q in 1..8) sum to 1
\* with an absolute error below 1e-14.
C12_SegmentWeightsSumToOne ==
  (rule_request.geom = "SEGMENT" /\ rule_request.q \in 1 .. 8) =>
    DecWithinTolerance(DecSum(rule.weights), <<1, 0, 0, 0, 0, 0, 0>>)

\* the 7-point segment rule, whose tabulated weights do not sum to 1 exactly,
\* has been returned
C12_Witness ==
  /\ rule_request.geom = "SEGMENT"
  /\ rule_request.q = 7
  /\ Len(rule.weights) = 7
  /\ DecSum(rule.weights) # <<1, 0, 0, 0, 0, 0, 0>>

\* C13 (as claimed): the lookup of a polynomial order p in 1..5 for a segment,
\* triangle or tetrahedron reads an element of the 5-entry vector and the rule
\* returned has at least one point; for a quadrilateral or hexahedron, which
\* the table has no entry for, no vector element is read out of bounds.
C13_OrderLookupInBounds ==
  /\ (lut_read.geom \in {"SEGMENT", "TRIANGLE", "TETRAHEDRON"} /\ lut_read.index \in 1 .. 5) =>
       /\ lut_read.size = 5
       /\ lut_read.index < lut_read.size
       /\ lut_read.outcome = "element"
       /\ Len(rule.points) >= 1
  /\ lut_read.geom \in {"SQUARE", "CUBE"} =>
       lut_read.outcome \notin {"crash", "garbage"}

(***************************************************************************)
(* Functional::operator() with a stateful domain integral.  State fields   *)
(* are counted in tenths: 0.1 is 1, 0.5 is 5.                              *)
(***************************************************************************)
\* bounds of the mesh and of the runs
NumElements == 2
PointsPerElement == 2
MaxInitialValue == 2
MaxEvaluations == 4
MaxCycles == 2
MaxSolverEvaluations == 3

\* the (element, quadrature point) slots of the QuadratureData
Slots == (0 .. NumElements - 1) \X (0 .. PointsPerElement - 1)

\* the state every slot holds once the integral is declared: "qdata = init"
\* for State, the default member initialisers for the other two types
InitialState(kind, v) ==
  IF kind = "basic_integrals_default" THEN [x |-> 5]
  ELSE IF kind = "basic_integrals_multi_fields" THEN [x |-> 5, y |-> 3]
  ELSE [x |-> v]

\* the callback of the integral, applied to the state it is handed by reference
Callback(kind, state) ==
  IF kind = "basic_integrals_multi_fields"
    THEN [state EXCEPT !.x = @ + 1, !.y = @ + 7]
  ELSE [state EXCEPT !.x = @ + 1]

\* a quadrature point whose state is written back whatever the flag says
EvaluatePoint_AlwaysCommitted(state, kind, flag) ==
  Callback(kind, state)

\* one quadrature point of operator(): the callback mutates the state it is
\* handed; the slot keeps the mutation only if update_qdata is set
EvaluatePoint(state, kind, flag) ==
  LET mutated == Callback(kind, state)
  IN  IF flag THEN mutated ELSE state

\* an element loop that leaves out the last quadrature point of each element
Evaluate_SkippingLastPoint(qd, kind, flag) ==
  [s \in DOMAIN qd |->
     IF s[2] = PointsPerElement - 1 THEN qd[s] ELSE EvaluatePoint(qd[s], kind, flag)]

\* the element and quadrature-point loops of operator(): every slot once
Evaluate(qd, kind, flag) ==
  [s \in DOMAIN qd |-> EvaluatePoint(qd[s], kind, flag)]

\* what one operator() call leaves in the log
LogEntry(caller, flag, wrt) ==
  [caller |-> caller, update_qdata |-> flag, differentiate_wrt |-> wrt]

\* the test fixture: a Functional, a QuadratureData and one domain integral
FunInit ==
  \E kind \in {"basic_integrals", "basic_integrals_default", "basic_integrals_multi_fields"},
     v \in 0 .. MaxInitialValue :
    /\ kind # "basic_integrals" => v = 0
    /\ integrand = kind
    /\ qdata = [s \in Slots |-> InitialState(kind, v)]
    /\ qdata_initial = [s \in Slots |-> InitialState(kind, v)]
    /\ update_qdata = FALSE
    /\ evaluations = <<>>
    /\ HexIdle
    /\ QuadIdle
    /\ ThermalIdle
    /\ GpuIdle
    /\ SolidIdle
    /\ UtilIdle

\* residual->update_qdata = b
SetUpdateQdata ==
  \E b \in BOOLEAN :
    /\ b # update_qdata
    /\ update_qdata' = b
    /\ UNCHANGED <<integrand, qdata, qdata_initial, evaluations>>
    /\ UNCHANGED <<hexVars, quadVars, solidVars, thermalVars, gpuVars, utilVars>>

\* (*residual)(U)
CallResidual ==
  /\ Len(evaluations) < MaxEvaluations
  /\ qdata' = Evaluate(qdata, integrand, update_qdata)
  /\ evaluations' = Append(evaluations, LogEntry("test", update_qdata, "none"))
  /\ UNCHANGED <<integrand, qdata_initial, update_qdata>>
  /\ UNCHANGED <<hexVars, quadVars, solidVars, thermalVars, gpuVars, utilVars>>

FunNext ==
  \/ SetUpdateQdata
  \/ CallResidual

SpecFunctional == FunInit /\ [][FunNext]_vars

\* the number of logged evaluations that ran with update_qdata set
RECURSIVE NumCommitting(_)
NumCommitting(log) ==
  IF log = <<>> THEN 0
  ELSE (IF log[Len(log)].update_qdata THEN 1 ELSE 0) + NumCommitting(SubSeq(log, 1, Len(log) - 1))

\* the callback applied k times to a state
RECURSIVE CallbackTimes(_, _, _)
CallbackTimes(kind, state, k) ==
  IF k = 0 THEN state ELSE Callback(kind, CallbackTimes(kind, state, k - 1))

SolidInit ==
  \E qs \in BOOLEAN, gn \in BOOLEAN, ps \in {"none", "indeterminate"}, v \in 0 .. MaxInitialValue,
     order \in 1 .. 2, d \in 2 .. 3, meshdim \in 2 .. 3 :
    /\ solid_tparams = [order |-> order, dim |-> d]
    /\ mesh_ = [Dimension |-> meshdim]
    /\ is_quasistatic_ = qs
    /\ geom_nonlin_ = gn
    /\ residual_ = "null"
    /\ residual_with_bcs_ = "null"
    /\ J_ = "null"
    /\ solver_operator = "unset"
    /\ parameter_states_ = ps
    /\ mesh_nodes = "reference"
    /\ cycle_ = 0
    /\ pc = "construct"
    /\ method = NoMethod
    /\ error_message = ""
    /\ displacement_ = 0
    /\ reference_nodes_ = 0
    /\ deformed_nodes_ = 0
    /\ u_ = 0
    /\ c0_ = 0
    /\ predicted_displacement_ = 0
    /\ J_terms = <<>>
    /\ residual_calls = <<>>
    /\ integrand = "material"
    /\ qdata = [s \in Slots |-> [x |-> v]]
    /\ qdata_initial = [s \in Slots |-> [x |-> v]]
    /\ update_qdata = FALSE
    /\ evaluations = <<>>
    /\ HexIdle
    /\ QuadIdle
    /\ ThermalIdle
    /\ GpuIdle
    /\ UtilIdle

\* completeSetup() has run to its end
SetupComplete == residual_with_bcs_ = "set"

\* an operator() call reads *parameter_states_[i], a pointer nobody has set
ParametersIndeterminate == parameter_states_ = "indeterminate"

\* the program dies inside the named method, after the evaluations it made
Crash(name, log, qd) ==
  /\ pc' = "crashed"
  /\ method' = [name |-> name, setup |-> SetupComplete]
  /\ evaluations' = log
  /\ qdata' = qd
  /\ UNCHANGED <<is_quasistatic_, geom_nonlin_, residual_, residual_with_bcs_, J_,
                 solver_operator, parameter_states_, mesh_nodes, cycle_, error_message>>
  /\ UNCHANGED <<integrand, qdata_initial, update_qdata>>
  /\ UNCHANGED fieldVars

\* SLIC_ERROR_ROOT_IF fired inside the named method
SlicError(name, message) ==
  /\ pc' = "error"
  /\ error_message' = message
  /\ method' = [name |-> name, setup |-> SetupComplete]
  /\ UNCHANGED <<is_quasistatic_, geom_nonlin_, residual_, residual_with_bcs_, J_,
                 solver_operator, parameter_states_, mesh_nodes, cycle_>>
  /\ UNCHANGED funVars
  /\ UNCHANGED fieldVars

\* the nodes mesh_.GetNodes() returns to the constructor
MeshNodes == 4

\* the constructor's initialisation of the node grid functions and vectors
ConstructFields ==
  /\ reference_nodes_' = MeshNodes
  /\ deformed_nodes_' = MeshNodes
  /\ displacement_' = 0
  /\ predicted_displacement_' = 0
  /\ c0_' = 0
  /\ UNCHANGED <<u_, J_terms, residual_calls>>

\* the constructor with residual_ made before the dimensions are compared
SolidFunctional_ResidualBeforeCheck ==
  /\ pc = "construct"
  /\ residual_' = "set"
  /\ method' = [name |-> "SolidFunctional", setup |-> FALSE]
  /\ IF mesh_.Dimension # solid_tparams.dim
       THEN /\ pc' = "error"
            /\ error_message' = "Compile time dimension and runtime mesh dimension mismatch"
            /\ UNCHANGED fieldVars
       ELSE /\ pc' = "idle"
            /\ UNCHANGED error_message
            /\ ConstructFields
  /\ UNCHANGED <<is_quasistatic_, geom_nonlin_, residual_with_bcs_, J_, solver_operator,
                 parameter_states_, mesh_nodes, cycle_>>
  /\ UNCHANGED funVars
  /\ UNCHANGED <<hexVars, quadVars, ctorVars, thermalVars, gpuVars, utilVars>>

\* SolidFunctional(options, geom_nonlin, keep_deformation, name), followed by
\* setMaterial: the first statement of the body compares the dimensions and
\* the SLIC error ends the program; otherwise the body makes residual_
SolidFunctional ==
  /\ pc = "construct"
  /\ IF mesh_.Dimension # solid_tparams.dim
       THEN SlicError("SolidFunctional",
                      "Compile time dimension and runtime mesh dimension mismatch")
       ELSE /\ residual_' = "set"
            /\ pc' = "idle"
            /\ method' = [name |-> "SolidFunctional", setup |-> FALSE]
            /\ ConstructFields
            /\ UNCHANGED <<is_quasistatic_, geom_nonlin_, residual_with_bcs_, J_,
                           solver_operator, parameter_states_, mesh_nodes, cycle_,
                           error_message>>
            /\ UNCHANGED funVars
  /\ UNCHANGED <<hexVars, quadVars, ctorVars, thermalVars, gpuVars, utilVars>>

\* setParameter(parameter_state, i)
setParameter ==
  /\ pc = "idle"
  /\ parameter_states_ = "indeterminate"
  /\ parameter_states_' = "set"
  /\ UNCHANGED <<is_quasistatic_, geom_nonlin_, residual_, residual_with_bcs_, J_,
                 solver_operator, mesh_nodes, cycle_, pc, method, error_message>>
  /\ UNCHANGED funVars
  /\ UNCHANGED fieldVars
  /\ UNCHANGED <<hexVars, quadVars, ctorVars, thermalVars, gpuVars, utilVars>>

\* the vectors the solvers hand to the callbacks and leave in displacement_
Iterates == {0, 1}

\* the values the time integrator gives c0_
OdeCoefficients == {1, 2}

\* a call (*residual_)(arguments..., parameters...) and the positions of the
\* arguments it wraps in differentiate_wrt; get<DERIVATIVE> of the call is
\* the derivative with respect to the wrapped argument at these arguments,
\* for which the call itself stands
ResidualCall(arguments, wrt) == [arguments |-> arguments, differentiate_wrt |-> wrt]

\* completeSetup(): the check of the parameter pointers, then the operator
\* is built and, in the quasi-static case, J is computed once through the
\* gradient callback
completeSetup ==
  /\ pc = "idle"
  /\ \/ /\ ParametersIndeterminate
        /\ SlicError("completeSetup",
             "all parameters fields must be initialized before calling completeSetup()")
     \/ /\ ParametersIndeterminate
        /\ Crash("completeSetup", <<>>, qdata)
     \/ /\ residual_with_bcs_' = "set"
        /\ solver_operator' = "set"
        /\ method' = [name |-> "completeSetup", setup |-> SetupComplete]
        /\ IF is_quasistatic_
             THEN /\ evaluations' = <<LogEntry("gradient_callback", update_qdata, "u")>>
                  /\ qdata' = Evaluate(qdata, integrand, update_qdata)
                  /\ J_' = "assembled"
                  /\ residual_calls' = <<ResidualCall(<<displacement_, 0>>, {0})>>
                  /\ J_terms' = <<<<1, ResidualCall(<<displacement_, 0>>, {0})>>>>
             ELSE /\ evaluations' = <<>>
                  /\ residual_calls' = <<>>
                  /\ UNCHANGED <<qdata, J_, J_terms>>
        /\ UNCHANGED <<displacement_, reference_nodes_, deformed_nodes_, u_, c0_,
                       predicted_displacement_>>
        /\ UNCHANGED <<is_quasistatic_, geom_nonlin_, residual_, parameter_states_,
                       mesh_nodes, cycle_, pc, error_message>>
        /\ UNCHANGED <<integrand, qdata_initial, update_qdata>>
  /\ UNCHANGED <<hexVars, quadVars, ctorVars, thermalVars, gpuVars, utilVars>>

\* advanceTimestep(dt) up to the start of the nonlinear solve: the check of
\* residual_, the reference nodes, and the first lines of quasiStaticSolve or
\* of the ODE step, which use J_, residual_with_bcs_ and the solver's operator
advanceTimestepEnter ==
  /\ pc = "idle"
  /\ cycle_ < MaxCycles
  /\ IF residual_ = "null"
       THEN SlicError("advanceTimestep",
              "completeSetup() must be called prior to advanceTimestep(dt) in SolidFunctional.")
       ELSE \/ /\ ~SetupComplete \/ ParametersIndeterminate
               /\ Crash("advanceTimestep", <<>>, qdata)
            \/ /\ mesh_nodes' = IF geom_nonlin_ THEN "reference" ELSE mesh_nodes
               /\ pc' = "solve"
               /\ method' = [name |-> "advanceTimestep", setup |-> SetupComplete]
               /\ evaluations' = <<>>
               /\ residual_calls' = <<>>
               /\ IF is_quasistatic_
                    THEN UNCHANGED <<u_, c0_>>
                    ELSE \E u \in Iterates, c0 \in OdeCoefficients :
                           /\ u_' = u
                           /\ c0_' = c0
               /\ UNCHANGED <<displacement_, reference_nodes_, deformed_nodes_,
                              predicted_displacement_, J_terms>>
               /\ UNCHANGED <<is_quasistatic_, geom_nonlin_, residual_, residual_with_bcs_, J_,
                              solver_operator, parameter_states_, cycle_, error_message>>
               /\ UNCHANGED <<integrand, qdata, qdata_initial, update_qdata>>
  /\ UNCHANGED <<hexVars, quadVars, ctorVars, thermalVars, gpuVars, utilVars>>

\* the residual lambda of residual_with_bcs_, called by the nonlinear solver
ResidualCallback ==
  /\ pc = "solve"
  /\ SetupComplete
  /\ Len(evaluations) < MaxSolverEvaluations
  /\ evaluations' = Append(evaluations, LogEntry("residual_callback", update_qdata, "none"))
  /\ qdata' = Evaluate(qdata, integrand, update_qdata)
  /\ \E x \in Iterates :
       IF is_quasistatic_
         THEN /\ residual_calls' = <<ResidualCall(<<x, 0>>, {})>>
              /\ UNCHANGED predicted_displacement_
         ELSE /\ predicted_displacement_' = u_ + c0_ * x
              /\ residual_calls' = <<ResidualCall(<<u_ + c0_ * x, x>>, {})>>
  /\ UNCHANGED <<displacement_, reference_nodes_, deformed_nodes_, u_, c0_, J_terms>>
  /\ UNCHANGED <<integrand, qdata_initial, update_qdata>>
  /\ UNCHANGED <<is_quasistatic_, geom_nonlin_, residual_, residual_with_bcs_, J_,
                 solver_operator, parameter_states_, mesh_nodes, cycle_, pc, method,
                 error_message>>
  /\ UNCHANGED <<hexVars, quadVars, ctorVars, thermalVars, gpuVars, utilVars>>

\* the dynamic gradient lambda with M taken at u_, before the prediction
GradientCalls_MassAtUnpredictedDisplacement(x) ==
  IF is_quasistatic_
    THEN /\ residual_calls' = <<ResidualCall(<<x, 0>>, {0})>>
         /\ J_terms' = <<<<1, ResidualCall(<<x, 0>>, {0})>>>>
         /\ UNCHANGED predicted_displacement_
    ELSE LET K == ResidualCall(<<u_ + c0_ * x, x>>, {0})
             M == ResidualCall(<<u_, x>>, {1})
         IN  /\ predicted_displacement_' = u_ + c0_ * x
             /\ residual_calls' = <<K, M>>
             /\ J_terms' = <<<<1, M>>, <<c0_, K>>>>

\* the calls of the gradient lambda for the argument x and the matrix it
\* assembles: drdu at (u, zero_), or, after
\* add(1.0, u_, c0_, d2u_dt2, predicted_displacement_), K and M at
\* (predicted_displacement_, d2u_dt2) and mfem::Add(1.0, *m_mat, c0_, *k_mat)
GradientCalls(x) ==
  IF is_quasistatic_
    THEN /\ residual_calls' = <<ResidualCall(<<x, 0>>, {0})>>
         /\ J_terms' = <<<<1, ResidualCall(<<x, 0>>, {0})>>>>
         /\ UNCHANGED predicted_displacement_
    ELSE LET K == ResidualCall(<<u_ + c0_ * x, x>>, {0})
             M == ResidualCall(<<u_ + c0_ * x, x>>, {1})
         IN  /\ predicted_displacement_' = u_ + c0_ * x
             /\ residual_calls' = <<K, M>>
             /\ J_terms' = <<<<1, M>>, <<c0_, K>>>>

\* the gradient lambda of residual_with_bcs_: one evaluation differentiated
\* with respect to u (quasi-static), or K and then M (dynamic); J_ is replaced
GradientCallback ==
  /\ pc = "solve"
  /\ SetupComplete
  /\ Len(evaluations) < MaxSolverEvaluations
  /\ IF is_quasistatic_
       THEN /\ evaluations' = Append(evaluations, LogEntry("gradient_callback", update_qdata, "u"))
            /\ qdata' = Evaluate(qdata, integrand, update_qdata)
       ELSE /\ evaluations' =
                 evaluations \o <<LogEntry("gradient_callback", update_qdata, "u"),
                                  LogEntry("gradient_callback", update_qdata, "d2u_dt2")>>
            /\ qdata' = Evaluate(Evaluate(qdata, integrand, update_qdata), integrand, update_qdata)
  /\ \E x \in Iterates : GradientCalls(x)
  /\ J_' = "assembled"
  /\ UNCHANGED <<displacement_, reference_nodes_, deformed_nodes_, u_, c0_>>
  /\ UNCHANGED <<integrand, qdata_initial, update_qdata>>
  /\ UNCHANGED <<is_quasistatic_, geom_nonlin_, residual_, residual_with_bcs_,
                 solver_operator, parameter_states_, mesh_nodes, cycle_, pc, method,
                 error_message>>
  /\ UNCHANGED <<hexVars, quadVars, ctorVars, thermalVars, gpuVars, utilVars>>

\* an advanceTimestep that does not clear update_qdata after its evaluation
advanceTimestepReturn_FlagLeftSet ==
  /\ pc = "solve"
  /\ evaluations' = Append(evaluations, LogEntry("advanceTimestep", TRUE, "none"))
  /\ qdata' = Evaluate(qdata, integrand, TRUE)
  /\ update_qdata' = TRUE
  /\ mesh_nodes' = IF geom_nonlin_ THEN "deformed" ELSE mesh_nodes
  /\ \E d \in Iterates :
       /\ displacement_' = d
       /\ residual_calls' = <<ResidualCall(<<d, 0>>, {})>>
       /\ deformed_nodes_' = IF geom_nonlin_ THEN d + reference_nodes_ ELSE deformed_nodes_
  /\ UNCHANGED <<reference_nodes_, u_, c0_, predicted_displacement_, J_terms>>
  /\ cycle_' = cycle_ + 1
  /\ pc' = "idle"
  /\ UNCHANGED <<integrand, qdata_initial>>
  /\ UNCHANGED <<is_quasistatic_, geom_nonlin_, residual_, residual_with_bcs_, J_,
                 solver_operator, parameter_states_, method, error_message>>
  /\ UNCHANGED <<hexVars, quadVars, ctorVars, thermalVars, gpuVars, utilVars>>

\* advanceTimestep(dt) from the return of the solve to its own return:
\* update_qdata is set, the residual is evaluated once more, update_qdata is
\* cleared, the mesh takes the deformed nodes and the cycle is counted
advanceTimestepReturn ==
  /\ pc = "solve"
  /\ evaluations' = Append(evaluations, LogEntry("advanceTimestep", TRUE, "none"))
  /\ qdata' = Evaluate(qdata, integrand, TRUE)
  /\ update_qdata' = FALSE
  /\ mesh_nodes' = IF geom_nonlin_ THEN "deformed" ELSE mesh_nodes
  /\ \E d \in Iterates :
       /\ displacement_' = d
       /\ residual_calls' = <<ResidualCall(<<d, 0>>, {})>>
       /\ deformed_nodes_' = IF geom_nonlin_ THEN d + reference_nodes_ ELSE deformed_nodes_
  /\ UNCHANGED <<reference_nodes_, u_, c0_, predicted_displacement_, J_terms>>
  /\ cycle_' = cycle_ + 1
  /\ pc' = "idle"
  /\ UNCHANGED <<integrand, qdata_initial>>
  /\ UNCHANGED <<is_quasistatic_, geom_nonlin_, residual_, residual_with_bcs_, J_,
                 solver_operator, parameter_states_, method, error_message>>
  /\ UNCHANGED <<hexVars, quadVars, ctorVars, thermalVars, gpuVars, utilVars>>

\* solveAdjoint(adjoint_load): one evaluation differentiated with respect to
\* the displacement, then the solver is handed *residual_with_bcs_ again
solveAdjoint ==
  /\ pc = "idle"
  /\ \/ /\ ParametersIndeterminate
        /\ Crash("solveAdjoint", <<>>, qdata)
     \/ /\ ~SetupComplete
        /\ Crash("solveAdjoint", <<LogEntry("solveAdjoint", update_qdata, "u")>>,
                 Evaluate(qdata, integrand, update_qdata))
     \/ /\ evaluations' = <<LogEntry("solveAdjoint", update_qdata, "u")>>
        /\ qdata' = Evaluate(qdata, integrand, update_qdata)
        /\ solver_operator' = "set"
        /\ mesh_nodes' = IF geom_nonlin_ THEN "deformed" ELSE mesh_nodes
        /\ method' = [name |-> "solveAdjoint", setup |-> SetupComplete]
        /\ residual_calls' = <<ResidualCall(<<displacement_, 0>>, {0})>>
        /\ UNCHANGED <<displacement_, reference_nodes_, deformed_nodes_, u_, c0_,
                       predicted_displacement_, J_terms>>
        /\ UNCHANGED <<is_quasistatic_, geom_nonlin_, residual_, residual_with_bcs_, J_,
                       parameter_states_, cycle_, pc, error_message>>
        /\ UNCHANGED <<integrand, qdata_initial, update_qdata>>
  /\ UNCHANGED <<hexVars, quadVars, ctorVars, thermalVars, gpuVars, utilVars>>

\* computeSensitivity<parameter_field>(): one evaluation differentiated with
\* respect to the parameter field
computeSensitivity ==
  /\ pc = "idle"
  /\ parameter_states_ # "none"
  /\ \/ /\ ParametersIndeterminate
        /\ Crash("computeSensitivity", <<>>, qdata)
     \/ /\ evaluations' = <<LogEntry("computeSensitivity", update_qdata, "parameter")>>
        /\ qdata' = Evaluate(qdata, integrand, update_qdata)
        /\ mesh_nodes' = IF geom_nonlin_ THEN "deformed" ELSE mesh_nodes
        /\ method' = [name |-> "computeSensitivity", setup |-> SetupComplete]
        /\ residual_calls' = <<ResidualCall(<<displacement_, 0>>, {2})>>
        /\ UNCHANGED <<displacement_, reference_nodes_, deformed_nodes_, u_, c0_,
                       predicted_displacement_, J_terms>>
        /\ UNCHANGED <<is_quasistatic_, geom_nonlin_, residual_, residual_with_bcs_, J_,
                       solver_operator, parameter_states_, cycle_, pc, error_message>>
        /\ UNCHANGED <<integrand, qdata_initial, update_qdata>>
  /\ UNCHANGED <<hexVars, quadVars, ctorVars, thermalVars, gpuVars, utilVars>>

\* resetToReferenceConfiguration(): the displacement is zeroed (and the
\* velocity) and the mesh takes the reference nodes
resetToReferenceConfiguration ==
  /\ pc = "idle"
  /\ displacement_' = 0
  /\ mesh_nodes' = "reference"
  /\ method' = [name |-> "resetToReferenceConfiguration", setup |-> SetupComplete]
  /\ residual_calls' = <<>>
  /\ UNCHANGED <<reference_nodes_, deformed_nodes_, u_, c0_, predicted_displacement_, J_terms>>
  /\ UNCHANGED <<is_quasistatic_, geom_nonlin_, residual_, residual_with_bcs_, J_,
                 solver_operator, parameter_states_, cycle_, pc, error_message>>
  /\ UNCHANGED funVars
  /\ UNCHANGED <<hexVars, quadVars, ctorVars, thermalVars, gpuVars, utilVars>>

SolidNext ==
  \/ SolidFunctional
  \/ setParameter
  \/ completeSetup
  \/ advanceTimestepEnter
  \/ ResidualCallback
  \/ GradientCallback
  \/ advanceTimestepReturn
  \/ solveAdjoint
  \/ computeSensitivity
  \/ resetToReferenceConfiguration

SpecSolid == SolidInit /\ [][SolidNext]_vars

C8_AdvanceBeforeSetupIsError ==
  (method.name = "advanceTimestep" /\ ~method.setup) =>
    /\ pc = "error"
    /\ error_message =
         "completeSetup() must be called prior to advanceTimestep(dt) in SolidFunctional."

\* C14: a SolidFunctional<order, dim> constructed on a mesh of another
\* dimension ends in the error "Compile time dimension and runtime mesh
\* dimension mismatch", reported while residual_ is still null and before
\* anything of the object has been set up, solved with or evaluated.
C14_DimensionMismatchIsError ==
  (mesh_.Dimension # solid_tparams.dim /\ pc # "construct") =>
    /\ pc = "error"
    /\ error_message = "Compile time dimension and runtime mesh dimension mismatch"
    /\ method.name = "SolidFunctional"
    /\ residual_ = "null"
    /\ residual_with_bcs_ = "null"
    /\ J_ = "null"
    /\ solver_operator = "unset"
    /\ cycle_ = 0
    /\ evaluations = <<>>

\* the constructor of SolidFunctional<., 3> has failed on a 2D mesh
C14_Witness ==
  /\ solid_tparams.dim = 3
  /\ mesh_.Dimension = 2
  /\ pc = "error"
  /\ method.name = "SolidFunctional"
  /\ error_message = "Compile time dimension and runtime mesh dimension mismatch"

\* C22: every call of the residual made by SolidFunctional wraps at most one
\* of its arguments in differentiate_wrt.  The gradient callback of the
\* dynamic operator makes two calls, the first differentiated with respect
\* to the predicted displacement (K), the second with respect to the
\* acceleration (M), both with the same arguments (u_ + c0_ * d2u_dt2,
\* d2u_dt2), and assembles J_ = 1 * M + c0_ * K.
C22_OneSeedPerEvaluation ==
  /\ \A k \in DOMAIN residual_calls :
       Cardinality(residual_calls[k].differentiate_wrt) <= 1
  /\ (pc = "solve" /\ ~is_quasistatic_ /\ Len(residual_calls) = 2) =>
       LET K == residual_calls[1]
           M == residual_calls[2]
       IN  /\ K.differentiate_wrt = {0}
           /\ M.differentiate_wrt = {1}
           /\ K.arguments = M.arguments
           /\ K.arguments[1] = u_ + c0_ * K.arguments[2]
           /\ K.arguments[1] = predicted_displacement_
           /\ J_terms = <<<<1, M>>, <<c0_, K>>>>

\* the dynamic gradient callback has run for a non-zero acceleration, with
\* a predicted displacement that differs from u_
C22_Witness ==
  /\ pc = "solve"
  /\ ~is_quasistatic_
  /\ Len(residual_calls) = 2
  /\ c0_ = 2
  /\ u_ = 1
  /\ residual_calls[2].arguments = <<3, 1>>
  /\ J_terms[2][1] = 2

\* C25: with geometric nonlinearities on, whenever the object is between
\* two calls, completeSetup has run and the mesh holds deformed_nodes_,
\* deformed_nodes_ equals reference_nodes_ plus the displacement.
C25_DeformedNodesFollowDisplacement ==
  (geom_nonlin_ /\ SetupComplete /\ pc = "idle" /\ mesh_nodes = "deformed") =>
    deformed_nodes_ = reference_nodes_ + displacement_

(***************************************************************************)
(* heat_transfer::LinearIsotropicConductor and LinearConductor<2>.  The    *)
(* doubles are small integers; a tensor<double, 2, 2> is a pair of rows.   *)
(***************************************************************************)
MaxMaterialValue == 2

\* the doubles and the tensors the constructors are called with
MaterialValues == -1 .. MaxMaterialValue
MaterialTensors == {<<<<a, b>>, <<c, d>>>> : a \in MaterialValues, b \in -1 .. 1, c \in -1 .. 1, d \in MaterialValues}

\* is_symmetric_and_positive_definite(tensor<double, 2, 2>): the tensor equals
\* its transpose and its leading principal minors are positive
is_symmetric_and_positive_definite(A) ==
  /\ A[1][2] = A[2][1]
  /\ A[1][1] > 0
  /\ A[1][1] * A[2][2] - A[1][2] * A[2][1] > 0

\* the isotropic constructor without the check of the density
LinearIsotropicConductor_DensityUnchecked(input_density, input_specific_heat_capacity, input_conductivity) ==
  [members |-> [type |-> "LinearIsotropicConductor",
                density |-> input_density,
                specific_heat_capacity |-> input_specific_heat_capacity,
                conductivity |-> input_conductivity],
   error |->
     IF input_conductivity < 0
       THEN "Conductivity must be positive in the linear isotropic conductor material model."
     ELSE IF input_specific_heat_capacity < 0
       THEN "Specific heat capacity must be positive in the linear isotropic conductor material model."
     ELSE ""]

\* LinearIsotropicConductor(input_density, input_specific_heat_capacity,
\* input_conductivity): the members are initialised from the arguments, then
\* checked in the order conductivity, density, specific heat capacity; the
\* first SLIC error ends the program
LinearIsotropicConductor(input_density, input_specific_heat_capacity, input_conductivity) ==
  [members |-> [type |-> "LinearIsotropicConductor",
                density |-> input_density,
                specific_heat_capacity |-> input_specific_heat_capacity,
                conductivity |-> input_conductivity],
   error |->
     IF input_conductivity < 0
       THEN "Conductivity must be positive in the linear isotropic conductor material model."
     ELSE IF input_density < 0
       THEN "Density must be positive in the linear isotropic conductor material model."
     ELSE IF input_specific_heat_capacity < 0
       THEN "Specific heat capacity must be positive in the linear isotropic conductor material model."
     ELSE ""]

\* LinearConductor<2>(input_density, input_specific_heat_capacity,
\* input_conductivity): checked in the order density, specific heat capacity,
\* conductivity tensor
LinearConductor(input_density, input_specific_heat_capacity, input_conductivity) ==
  [members |-> [type |-> "LinearConductor",
                density |-> input_density,
                specific_heat_capacity |-> input_specific_heat_capacity,
                conductivity |-> input_conductivity],
   error |->
     IF input_density < 0
       THEN "Density must be positive in the linear conductor material model."
     ELSE IF input_specific_heat_capacity < 0
       THEN "Specific heat capacity must be positive in the linear conductor material model."
     ELSE IF ~is_symmetric_and_positive_definite(input_conductivity)
       THEN "Conductivity tensor must be symmetric and positive definite."
     ELSE ""]

ThermalInit ==
  /\ ThermalIdle
  /\ GpuIdle
  /\ HexIdle
  /\ QuadIdle
  /\ FunIdle
  /\ SolidIdle
  /\ UtilIdle

\* heat_transfer::LinearIsotropicConductor mat(rho, cp, kappa)
ConstructLinearIsotropicConductor ==
  \E rho \in MaterialValues, cp \in MaterialValues, kappa \in MaterialValues :
    /\ conductor_args.type = "none"
    /\ conductor_args' = [type |-> "LinearIsotropicConductor", input_density |-> rho,
                          input_specific_heat_capacity |-> cp, input_conductivity |-> kappa]
    /\ conductor' = LinearIsotropicConductor(rho, cp, kappa).members
    /\ conductor_error' = LinearIsotropicConductor(rho, cp, kappa).error
    /\ UNCHANGED <<hexVars, quadVars, funVars, solidVars, gpuVars, utilVars>>

\* heat_transfer::LinearConductor<2> mat(rho, cp, kappa)
ConstructLinearConductor ==
  \E rho \in MaterialValues, cp \in MaterialValues, kappa \in MaterialTensors :
    /\ conductor_args.type = "none"
    /\ conductor_args' = [type |-> "LinearConductor", input_density |-> rho,
                          input_specific_heat_capacity |-> cp, input_conductivity |-> kappa]
    /\ conductor' = LinearConductor(rho, cp, kappa).members
    /\ conductor_error' = LinearConductor(rho, cp, kappa).error
    /\ UNCHANGED <<hexVars, quadVars, funVars, solidVars, gpuVars, utilVars>>

ThermalNext ==
  \/ ConstructLinearIsotropicConductor
  \/ ConstructLinearConductor

SpecThermal == ThermalInit /\ [][ThermalNext]_vars

\* x^T A x > 0 for every nonzero vector x of small integers, A symmetric
SymmetricPositiveDefinite(A) ==
  /\ A[1][2] = A[2][1]
  /\ \A x \in (-MaxMaterialValue .. MaxMaterialValue) \X (-MaxMaterialValue .. MaxMaterialValue) :
       x # <<0, 0>> =>
         x[1] * (A[1][1] * x[1] + A[1][2] * x[2]) + x[2] * (A[2][1] * x[1] + A[2][2] * x[2]) > 0

\* C15: the isotropic constructor ends in an error exactly when one of its
\* three arguments is negative, the tensor constructor exactly when density or
\* specific heat capacity is negative or the conductivity tensor is not
\* symmetric positive definite; without an error the members are exactly the
\* arguments.
C15_ConductorValidation ==
  /\ conductor_args.type = "LinearIsotropicConductor" =>
       conductor_error # "" <=>
         \/ conductor_args.input_density < 0
         \/ conductor_args.input_specific_heat_capacity < 0
         \/ conductor_args.input_conductivity < 0
  /\ conductor_args.type = "LinearConductor" =>
       conductor_error # "" <=>
         \/ conductor_args.input_density < 0
         \/ conductor_args.input_specific_heat_capacity < 0
         \/ ~SymmetricPositiveDefinite(conductor_args.input_conductivity)
  /\ (conductor_args.type # "none" /\ conductor_error = "") =>
       /\ conductor.density = conductor_args.input_density
       /\ conductor.specific_heat_capacity = conductor_args.input_specific_heat_capacity
       /\ conductor.conductivity = conductor_args.input_conductivity

\* an isotropic conductor whose only negative argument is the density has
\* been refused
C15_Witness ==
  /\ conductor_args.type = "LinearIsotropicConductor"
  /\ conductor_args.input_density < 0
  /\ conductor_args.input_specific_heat_capacity >= 0
  /\ conductor_args.input_conductivity >= 0
  /\ conductor_error = "Density must be positive in the linear isotropic conductor material model."

(***************************************************************************)
(* The device kernels of the element, one thread block on one element:     *)
(* interpolate, the value-only interpolate, gradient and integrate.  Each  *)
(* kernel stages the basis tables in shared memory and then runs, for      *)
(* every component, three loop nests over scratch tensors A1 and A2 that   *)
(* the whole block shares.  A thread's step is one loop nest; a thread     *)
(* that stands at a __syncthreads() goes on when every thread of the block *)
(* has reached it.  What is recorded of a shared entry is who wrote it and *)
(* for which component.                                                    *)
(***************************************************************************)
MaxBlockDim == 2
MaxBlockThreads == 4

\* the three overloads of integrate: sources and fluxes, sources only,
\* fluxes only
IntegratingKernels == {"integrate", "integrate_source", "integrate_flux"}

DeviceKernels ==
  {"interpolate", "interpolate_value", "gradient"} \cup IntegratingKernels

\* the values of the argument e of integrate, the element whose residual the
\* block adds to
ElementIndices == {0, 1}

\* the block shapes: blockDim.x, blockDim.y, blockDim.z
BlockShapes ==
  {bd \in (1 .. MaxBlockDim) \X (1 .. MaxBlockDim) \X (1 .. MaxBlockDim) :
     bd[1] * bd[2] * bd[3] <= MaxBlockThreads}

\* the threads of a block as <<threadIdx.x, threadIdx.y, threadIdx.z>>
Threads(bd) == (0 .. bd[1] - 1) \X (0 .. bd[2] - 1) \X (0 .. bd[3] - 1)

\* the loops with every thread starting at 0 and stepping by 1
Stride_FromZero(start, limit, step) == 0 .. limit - 1

\* the values of k in "for (int k = start; k < limit; k += step)"
Stride(start, limit, step) == {k \in start .. limit - 1 : (k - start) % step = 0}

\* the loop nests a thread runs: the staging, then three per component
NumLoopNests(cc) == 1 + 3 * cc

\* the component and the pass of loop nest number ph >= 1
ComponentOf(ph) == (ph - 1) \div 3
PassOf(ph) == ((ph - 1) % 3) + 1

\* the kernel without the __syncthreads() after the second loop nest
SyncBefore_NoneAfterSecondPass(ph) == ph = 1 \/ PassOf(ph) = 2

\* whether a __syncthreads() stands between loop nest ph - 1 and loop nest
\* ph: after the staging and after the first and the second pass of every
\* component, none after the third
SyncBefore(ph) == ph = 1 \/ PassOf(ph) \in {2, 3}

\* the index sets of the scratch tensors, without the leading plane index:
\* (dz, dy, qx) and (dz, qy, qx) in the interpolating kernels,
\* (qz, qy, dx) and (qz, dy, dx) in integrate
A1Entries(kernel, pp, qq) ==
  IF kernel \in IntegratingKernels THEN QPts(qq) \X QPts(qq) \X Nodes(pp)
  ELSE Nodes(pp) \X Nodes(pp) \X QPts(qq)

A2Entries(kernel, pp, qq) ==
  IF kernel \in IntegratingKernels THEN QPts(qq) \X Nodes(pp) \X Nodes(pp)
  ELSE Nodes(pp) \X QPts(qq) \X QPts(qq)

\* the staging with every thread of the block writing, not only threadIdx.z == 0
StagedBy_EveryLayer(t, bd, pp, qq) ==
  Stride(t[2], qq, bd[2]) \X Stride(t[1], pp + 1, bd[1])

\* the entries (j, i) of B and G that thread t writes in the staging loops
StagedBy(t, bd, pp, qq) ==
  IF t[3] = 0 THEN Stride(t[2], qq, bd[2]) \X Stride(t[1], pp + 1, bd[1]) ELSE {}

\* the entries of A1 that thread t writes in the first pass
FirstPassWrites(kernel, t, bd, pp, qq) ==
  IF kernel \in IntegratingKernels
    THEN Stride(t[3], qq, bd[3]) \X Stride(t[2], qq, bd[2]) \X Stride(t[1], pp + 1, bd[1])
    ELSE Stride(t[3], pp + 1, bd[3]) \X Stride(t[2], pp + 1, bd[2]) \X Stride(t[1], qq, bd[1])

\* the entries (j, i) of the shared tables that thread t reads in the first
\* pass: B(qx, dx) and G(qx, dx) for its qx and every dx, or for every qx and
\* its dx
FirstPassTableReads(kernel, t, bd, pp, qq) ==
  IF FirstPassWrites(kernel, t, bd, pp, qq) = {} THEN {}
  ELSE IF kernel \in IntegratingKernels THEN QPts(qq) \X Stride(t[1], pp + 1, bd[1])
  ELSE Stride(t[1], qq, bd[1]) \X Nodes(pp)

\* the entries of A2 that thread t writes in the second pass
SecondPassWrites(kernel, t, bd, pp, qq) ==
  IF kernel \in IntegratingKernels
    THEN Stride(t[3], qq, bd[3]) \X Stride(t[2], pp + 1, bd[2]) \X Stride(t[1], pp + 1, bd[1])
    ELSE Stride(t[3], pp + 1, bd[3]) \X Stride(t[2], qq, bd[2]) \X Stride(t[1], qq, bd[1])

\* the entries of A1 it reads for them: A1(., dz, dy, qx) for every dy, or
\* A1(., qz, qy, dx) for every qy
SecondPassReads(kernel, t, bd, pp, qq) ==
  IF kernel \in IntegratingKernels
    THEN {<<w[1], qy, w[3]>> : w \in SecondPassWrites(kernel, t, bd, pp, qq), qy \in QPts(qq)}
    ELSE {<<w[1], dy, w[3]>> : w \in SecondPassWrites(kernel, t, bd, pp, qq), dy \in Nodes(pp)}

SecondPassTableReads(kernel, t, bd, pp, qq) ==
  IF SecondPassWrites(kernel, t, bd, pp, qq) = {} THEN {}
  ELSE IF kernel \in IntegratingKernels THEN QPts(qq) \X Stride(t[2], pp + 1, bd[2])
  ELSE Stride(t[2], qq, bd[2]) \X Nodes(pp)

\* the quadrature points, or the dofs, that thread t accumulates in the third pass
ThirdPassOutputs(kernel, t, bd, pp, qq) ==
  IF kernel \in IntegratingKernels
    THEN Stride(t[3], pp + 1, bd[3]) \X Stride(t[2], pp + 1, bd[2]) \X Stride(t[1], pp + 1, bd[1])
    ELSE Stride(t[3], qq, bd[3]) \X Stride(t[2], qq, bd[2]) \X Stride(t[1], qq, bd[1])

\* the entries of A2 it reads for them: A2(., dz, qy, qx) for every dz, or
\* A2(., qz, dy, dx) for every qz
ThirdPassReads(kernel, t, bd, pp, qq) ==
  IF kernel \in IntegratingKernels
    THEN {<<qz, o[2], o[3]>> : o \in ThirdPassOutputs(kernel, t, bd, pp, qq), qz \in QPts(qq)}
    ELSE {<<dz, o[2], o[3]>> : o \in ThirdPassOutputs(kernel, t, bd, pp, qq), dz \in Nodes(pp)}

ThirdPassTableReads(kernel, t, bd, pp, qq) ==
  IF ThirdPassOutputs(kernel, t, bd, pp, qq) = {} THEN {}
  ELSE IF kernel \in IntegratingKernels THEN QPts(qq) \X Stride(t[3], pp + 1, bd[3])
  ELSE Stride(t[3], qq, bd[3]) \X Nodes(pp)

\* the stores of the third pass of integrate: r_e(dx, dy, dz, i, e) += sum for
\* the thread's (dz, dy, dx); the interpolating kernels add to the thread's
\* own qf_input and store nothing
ResidualStores(kernel, t, bd, pp, qq, i, el, ph) ==
  IF kernel \in IntegratingKernels
    THEN {[array |-> "r_e", index |-> <<o[3], o[2], o[1], i, el>>, pass |-> ph, thread |-> t] :
            o \in ThirdPassOutputs(kernel, t, bd, pp, qq)}
    ELSE {}

\* the additions of the third pass of an interpolating kernel to the
\* thread's own qf_input: qf_input[i] += B(qz, dz) * A2(., dz, qy, qx) for
\* every (qz, qy, qx) of the thread's loops
InputAccumulations(kernel, t, bd, pp, qq, i, ph) ==
  IF kernel \in IntegratingKernels THEN {}
  ELSE {[array |-> "qf_input", index |-> <<o[1], o[2], o[3], i>>, pass |-> ph, thread |-> t] :
          o \in ThirdPassOutputs(kernel, t, bd, pp, qq)}

\* what the reads of a pass for component i found that the previous pass of
\* component i had not left there
ScratchHazards(name, written, reads, i) ==
  {name \o " read before it was written" : e \in {r \in reads : written[r] < i}}
    \cup {name \o " overwritten before it was read" : e \in {r \in reads : written[r] > i}}

TableHazards(reads) ==
  {"table read before it was staged" : e \in {r \in reads : shared_tables[r] = <<>>}}

SyncInit ==
  \E kernel \in DeviceKernels, pq \in OrdersAndPoints, cc \in 1 .. MaxComponents,
     bd \in BlockShapes, el \in ElementIndices :
    /\ kernel \notin IntegratingKernels => el = 0
    /\ launch = [kernel |-> kernel, p |-> pq[1], q |-> pq[2], c |-> cc, e |-> el,
                 blockDim |-> bd]
    /\ tpc = [t \in Threads(bd) |-> 0]
    /\ shared_tables = [e \in QPts(pq[2]) \X Nodes(pq[1]) |-> <<>>]
    /\ table_writers = [e \in QPts(pq[2]) \X Nodes(pq[1]) |-> {}]
    /\ A1_written = [e \in A1Entries(kernel, pq[1], pq[2]) |-> -1]
    /\ A2_written = [e \in A2Entries(kernel, pq[1], pq[2]) |-> -1]
    /\ hazards = {}
    /\ writes = {}
    /\ barriers = [t \in Threads(bd) |-> 0]
    /\ DeviceIdle
    /\ HexIdle
    /\ QuadIdle
    /\ FunIdle
    /\ SolidIdle
    /\ ThermalIdle
    /\ UtilIdle

\* a kernel whose first __syncthreads() stands inside the staging's
\* if (threadIdx.z == 0)
ExecutesBarrier_InsideStagingBranch(t, ph) == IF ph = 1 THEN t[3] = 0 ELSE SyncBefore(ph)

\* whether thread t executes a __syncthreads() between loop nest ph - 1 and
\* loop nest ph: the barriers stand outside the if of the staging and
\* outside the strided loops, so every thread executes each of them
ExecutesBarrier(t, ph) == SyncBefore(ph)

\* thread t may run its next loop nest: it has one left, and every thread
\* has reached the __syncthreads() in front of it, if there is one
MayRun(t, ph) ==
  /\ tpc[t] = ph
  /\ ph < NumLoopNests(launch.c)
  /\ ExecutesBarrier(t, ph) => \A u \in DOMAIN tpc : tpc[u] >= ph

\* the barrier counts once thread t has gone on to loop nest ph >= 1
PassBarrier(t, ph) ==
  [barriers EXCEPT ![t] = IF ExecutesBarrier(t, ph) THEN @ + 1 ELSE @]

\* if (threadIdx.z == 0) { B(j, i) = B_(j, i); G(j, i) = G_(j, i); }
StageTables ==
  \E t \in DOMAIN tpc :
    /\ MayRun(t, 0)
    /\ LET mine == StagedBy(t, launch.blockDim, launch.p, launch.q)
       IN  /\ shared_tables' = [e \in DOMAIN shared_tables |->
                                  IF e \in mine THEN e ELSE shared_tables[e]]
           /\ table_writers' = [e \in DOMAIN table_writers |->
                                  IF e \in mine THEN table_writers[e] \cup {t}
                                  ELSE table_writers[e]]
    /\ tpc' = [tpc EXCEPT ![t] = 1]
    /\ UNCHANGED <<launch, A1_written, A2_written, hazards, writes, barriers>>
    /\ UNCHANGED <<hexVars, quadVars, funVars, solidVars, thermalVars, deviceVars, utilVars>>

\* the first loop nest of component i: A1(., ...) = sum over the x index
FirstPass ==
  \E t \in DOMAIN tpc, ph \in 1 .. NumLoopNests(launch.c) - 1 :
    /\ MayRun(t, ph)
    /\ PassOf(ph) = 1
    /\ LET mine == FirstPassWrites(launch.kernel, t, launch.blockDim, launch.p, launch.q)
       IN  /\ A1_written' = [e \in DOMAIN A1_written |->
                               IF e \in mine THEN ComponentOf(ph) ELSE A1_written[e]]
           /\ writes' = writes \cup
                {[array |-> "A1", index |-> w, pass |-> ph, thread |-> t] : w \in mine}
    /\ hazards' = hazards \cup
         TableHazards(FirstPassTableReads(launch.kernel, t, launch.blockDim, launch.p, launch.q))
    /\ tpc' = [tpc EXCEPT ![t] = ph + 1]
    /\ barriers' = PassBarrier(t, ph)
    /\ UNCHANGED <<launch, shared_tables, table_writers, A2_written>>
    /\ UNCHANGED <<hexVars, quadVars, funVars, solidVars, thermalVars, deviceVars, utilVars>>

\* the second loop nest of component i: A2(., ...) = sum over the y index of A1
SecondPass ==
  \E t \in DOMAIN tpc, ph \in 1 .. NumLoopNests(launch.c) - 1 :
    /\ MayRun(t, ph)
    /\ PassOf(ph) = 2
    /\ LET mine == SecondPassWrites(launch.kernel, t, launch.blockDim, launch.p, launch.q)
       IN  /\ A2_written' = [e \in DOMAIN A2_written |->
                               IF e \in mine THEN ComponentOf(ph) ELSE A2_written[e]]
           /\ writes' = writes \cup
                {[array |-> "A2", index |-> w, pass |-> ph, thread |-> t] : w \in mine}
    /\ hazards' = hazards
         \cup TableHazards(SecondPassTableReads(launch.kernel, t, launch.blockDim,
                                                launch.p, launch.q))
         \cup ScratchHazards("A1", A1_written,
                             SecondPassReads(launch.kernel, t, launch.blockDim, launch.p, launch.q),
                             ComponentOf(ph))
    /\ tpc' = [tpc EXCEPT ![t] = ph + 1]
    /\ barriers' = PassBarrier(t, ph)
    /\ UNCHANGED <<launch, shared_tables, table_writers, A1_written>>
    /\ UNCHANGED <<hexVars, quadVars, funVars, solidVars, thermalVars, deviceVars, utilVars>>

\* the third loop nest of component i: the sums over the z index of A2, added
\* to the thread's qf_input or to r_e
ThirdPass ==
  \E t \in DOMAIN tpc, ph \in 1 .. NumLoopNests(launch.c) - 1 :
    /\ MayRun(t, ph)
    /\ PassOf(ph) = 3
    /\ hazards' = hazards
         \cup TableHazards(ThirdPassTableReads(launch.kernel, t, launch.blockDim,
                                               launch.p, launch.q))
         \cup ScratchHazards("A2", A2_written,
                             ThirdPassReads(launch.kernel, t, launch.blockDim, launch.p, launch.q),
                             ComponentOf(ph))
    /\ writes' = writes
         \cup ResidualStores(launch.kernel, t, launch.blockDim, launch.p, launch.q,
                             ComponentOf(ph), launch.e, ph)
         \cup InputAccumulations(launch.kernel, t, launch.blockDim, launch.p, launch.q,
                                 ComponentOf(ph), ph)
    /\ tpc' = [tpc EXCEPT ![t] = ph + 1]
    /\ barriers' = PassBarrier(t, ph)
    /\ UNCHANGED <<launch, shared_tables, table_writers, A1_written, A2_written>>
    /\ UNCHANGED <<hexVars, quadVars, funVars, solidVars, thermalVars, deviceVars, utilVars>>

SyncNext ==
  \/ StageTables
  \/ FirstPass
  \/ SecondPass
  \/ ThirdPass

SpecGpuSync == SyncInit /\ [][SyncNext]_vars

\* the block under a scheduler that runs some thread whenever one can run
SpecGpuBarrier == SyncInit /\ [][SyncNext]_vars /\ WF_vars(SyncNext)

\* C18: in every kernel, under every interleaving and for every number of
\* components, every read of an entry of A1 or A2 finds what the previous
\* pass of the same component wrote: no entry is read before it is written,
\* none is overwritten for the next component while a thread still has to
\* read it, and every entry a thread is about to read holds that component.
C18_ScratchReadsSeePreviousPass ==
  launch.kernel # "none" =>
    /\ hazards \cap {"A1 read before it was written", "A1 overwritten before it was read",
                     "A2 read before it was written", "A2 overwritten before it was read"} = {}
    /\ \A t \in DOMAIN tpc :
         LET ph == tpc[t]
         IN  /\ (MayRun(t, ph) /\ ph >= 1 /\ PassOf(ph) = 2) =>
                  \A e \in SecondPassReads(launch.kernel, t, launch.blockDim, launch.p, launch.q) :
                    A1_written[e] = ComponentOf(ph)
             /\ (MayRun(t, ph) /\ ph >= 1 /\ PassOf(ph) = 3) =>
                  \A e \in ThirdPassReads(launch.kernel, t, launch.blockDim, launch.p, launch.q) :
                    A2_written[e] = ComponentOf(ph)

\* one thread of an integrate block has written A1 for the second component
\* while another has yet to run its third pass of the first
C18_Witness ==
  /\ launch.kernel = "integrate"
  /\ launch.c >= 2
  /\ \E t \in DOMAIN tpc, u \in DOMAIN tpc :
       /\ tpc[t] = 5
       /\ tpc[u] = 3
       /\ FirstPassWrites(launch.kernel, t, launch.blockDim, launch.p, launch.q) # {}
       /\ ThirdPassReads(launch.kernel, u, launch.blockDim, launch.p, launch.q) # {}
  /\ hazards = {}

\* C19: for every block shape, once any thread has run a loop nest that
\* reads shared B or G, every entry of both tables holds the corresponding
\* entry of the static table and has been written by threads with
\* threadIdx.z == 0 only; no thread reads them before every thread has passed
\* the first barrier, and no read finds an entry that was not staged.
C19_TablesStagedBeforeFirstUse ==
  (launch.kernel # "none" /\ \E t \in DOMAIN tpc : tpc[t] >= 2) =>
    /\ \A e \in DOMAIN shared_tables :
         /\ shared_tables[e] = e
         /\ table_writers[e] # {}
         /\ \A w \in table_writers[e] : w[3] = 0
    /\ \A u \in DOMAIN tpc : tpc[u] >= 1
    /\ "table read before it was staged" \notin hazards

\* in a block of two layers of threads the upper layer, which stages nothing,
\* has read the tables the lower layer staged
C19_Witness ==
  /\ launch.kernel = "interpolate"
  /\ launch.blockDim[3] = 2
  /\ \E t \in DOMAIN tpc : t[3] = 1 /\ tpc[t] >= 2
  /\ \A e \in DOMAIN shared_tables : shared_tables[e] = e
  /\ hazards = {}

\* the locations the pass of loop nest ph stores to in the integrate kernels
StoredInPass(ph) ==
  IF PassOf(ph) = 1 THEN A1Entries(launch.kernel, launch.p, launch.q)
  ELSE IF PassOf(ph) = 2 THEN A2Entries(launch.kernel, launch.p, launch.q)
  ELSE Nodes(launch.p) \X Nodes(launch.p) \X Nodes(launch.p)
         \X {ComponentOf(ph)} \X {launch.e}

\* C21: an integrate kernel called for element e stores to r_e only at
\* indices whose element is e; for every block shape no location of A1, A2
\* or r_e is stored to by two threads in the same pass; and once every
\* thread has finished a pass, every location of that pass has been stored
\* to by exactly one thread.
C21_WritesAreExclusive ==
  launch.kernel \in IntegratingKernels =>
    /\ \A w \in writes : w.array = "r_e" => w.index[5] = launch.e
    /\ \A w1 \in writes, w2 \in writes :
         (w1.array = w2.array /\ w1.index = w2.index /\ w1.pass = w2.pass)
           => w1.thread = w2.thread
    /\ \A ph \in 1 .. NumLoopNests(launch.c) - 1 :
         (\A t \in DOMAIN tpc : tpc[t] > ph) =>
           \A loc \in StoredInPass(ph) :
             Cardinality({w \in writes : w.pass = ph /\ w.index = loc}) = 1

\* a block with fewer threads than dofs along x has finished integrate for
\* element 1, and two of its threads have both stored into r_e
C21_Witness ==
  /\ launch.kernel \in IntegratingKernels
  /\ launch.e = 1
  /\ launch.blockDim[1] < launch.p + 1
  /\ \A t \in DOMAIN tpc : tpc[t] = NumLoopNests(launch.c)
  /\ \E w1 \in writes, w2 \in writes :
       /\ w1.array = "r_e"
       /\ w2.array = "r_e"
       /\ w1.thread # w2.thread
  /\ \E w1 \in writes, w2 \in writes :
       /\ w1.array = "r_e"
       /\ w2.array = "r_e"
       /\ w1.thread = w2.thread
       /\ w1.index # w2.index
       /\ w1.pass = w2.pass

\* the quadrature points whose contributions thread t has added to
\* component i of its qf_input
PointsAddedTo(t, i) ==
  {<<w.index[1], w.index[2], w.index[3]>> :
     w \in {v \in writes : v.array = "qf_input" /\ v.thread = t /\ v.index[4] = i}}

\* C28: for every block shape, also with fewer than q threads along an axis,
\* what an interpolating kernel returns to a thread whose index is a
\* quadrature point holds, in every component, the contribution of that one
\* point (threadIdx.z, threadIdx.y, threadIdx.x) and of no other point.
C28_ReturnedTupleIsOwnPoint ==
  launch.kernel \in DeviceKernels \ IntegratingKernels =>
    \A t \in DOMAIN tpc :
      (/\ tpc[t] = NumLoopNests(launch.c)
       /\ t[1] < launch.q
       /\ t[2] < launch.q
       /\ t[3] < launch.q)
        => \A i \in 0 .. launch.c - 1 : PointsAddedTo(t, i) = {<<t[3], t[2], t[1]>>}

\* the barriers a thread has executed when it has run the loop nests before
\* ph: none up to the staging, then the one after the staging, two for every
\* finished component and one for every further pass of the component at hand
BarriersUpTo(ph) ==
  IF ph <= 1 THEN 0
  ELSE 1 + (2 * ComponentOf(ph - 1)) + (PassOf(ph - 1) - 1)

\* every thread of the block has returned from the kernel
BlockReturned == \A t \in DOMAIN tpc : tpc[t] = NumLoopNests(launch.c)

\* C29: in every kernel, for every block shape and every p, q, c, a thread
\* that has returned has executed one barrier plus two per component,
\* whatever its index and whether or not its loops had iterations; a thread
\* that has gone past a barrier was joined at it by every thread of the
\* block; and every thread of the block eventually returns.
C29_BarriersAreUniform ==
  /\ [](launch.kernel \in DeviceKernels =>
         \A t \in DOMAIN tpc :
           /\ tpc[t] = NumLoopNests(launch.c) => barriers[t] = 1 + (2 * launch.c)
           /\ barriers[t] = BarriersUpTo(tpc[t])
           /\ \A u \in DOMAIN tpc : barriers[u] >= barriers[t] - 1)
  /\ (launch.kernel \in DeviceKernels) ~> BlockReturned

\* a block of two layers on one point per dimension has returned from an
\* interpolate of two components: the thread of the second layer did not
\* stage, had no iteration in the third loop nests and executed the five
\* barriers
C29_Witness ==
  /\ launch.kernel = "interpolate"
  /\ launch.q = 1
  /\ launch.p = 1
  /\ launch.c = 2
  /\ launch.blockDim = <<1, 1, 2>>
  /\ BlockReturned
  /\ barriers[<<0, 0, 1>>] = 5
  /\ \A e \in DOMAIN table_writers : table_writers[e] = {<<0, 0, 0>>}
  /\ \A w \in writes : w.array = "qf_input" => w.thread = <<0, 0, 0>>
  /\ \E w \in writes : w.array = "qf_input"

(***************************************************************************)
(* The interpolating device kernels with the numbers they compute, run by  *)
(* a block of q x q x q threads.  The loop nests, their index sets and the *)
(* barriers are those of the kernels above; the shared tables and the      *)
(* scratch tensors now hold values.                                        *)
(***************************************************************************)
InterpolatingKernels == {"interpolate", "interpolate_value", "gradient"}

\* what shared and scratch memory hold before the kernel writes them
Uninitialised == FromInt(7)

\* the planes of A1 and of A2 a kernel has: the value-only kernel's tensors
\* have no plane index
A1Planes(kernel) == IF kernel = "interpolate_value" THEN {0} ELSE {0, 1}
A2Planes(kernel) == IF kernel = "interpolate_value" THEN {0} ELSE {0, 1, 2}

\* qf_input{}: the zero-initialised return value of a thread
ZeroInput(kernel, cc) ==
  IF kernel = "interpolate"
    THEN [value |-> [i \in Comps(cc) |-> Zero],
          gradient |-> [i \in Comps(cc), d \in Dim |-> Zero]]
  ELSE IF kernel = "interpolate_value" THEN [value |-> [i \in Comps(cc) |-> Zero]]
  ELSE [gradient |-> [i \in Comps(cc), d \in Dim |-> Zero]]

\* the sum of f over the set S
RECURSIVE SumOver(_, _)
SumOver(f, S) ==
  IF S = {} THEN Zero
  ELSE LET e == CHOOSE e \in S : TRUE
       IN  Add(f[e], SumOver(f, S \ {e}))

\* the sums a thread forms in the first loop nest for A1(k, dz, dy, qx)
DeviceFirstPassSum(k, i, e, pp) ==
  Sum([dx \in Nodes(pp) |->
         Mul(IF k = 0 THEN shared_B[<<e[3], dx>>] ELSE shared_G[<<e[3], dx>>],
             X[i, e[1], e[2], dx])])

\* the sums of the second loop nest for A2(k, dz, qy, qx): B with A1(0), B
\* with A1(1), G with A1(0)
DeviceSecondPassSum(k, e, pp) ==
  Sum([dy \in Nodes(pp) |->
         Mul(IF k = 2 THEN shared_G[<<e[2], dy>>] ELSE shared_B[<<e[2], dy>>],
             cache_A1[IF k = 1 THEN 1 ELSE 0, e[1], dy, e[3]])])

\* the third loop nest with the y and z derivatives exchanged
DeviceThirdPassSum_DerivativesExchanged(what, o, pp) ==
  Sum([dz \in Nodes(pp) |->
         IF what = -1 THEN Mul(shared_B[<<o[1], dz>>], cache_A2[0, dz, o[2], o[3]])
         ELSE IF what = 0 THEN Mul(shared_B[<<o[1], dz>>], cache_A2[1, dz, o[2], o[3]])
         ELSE IF what = 2 THEN Mul(shared_B[<<o[1], dz>>], cache_A2[2, dz, o[2], o[3]])
         ELSE Mul(shared_G[<<o[1], dz>>], cache_A2[0, dz, o[2], o[3]])])

\* what the third loop nest adds for the point o = (qz, qy, qx): to the value
\* (what = -1) B with A2(0), to the derivatives (what = 0, 1, 2) B with A2(1),
\* B with A2(2), G with A2(0)
DeviceThirdPassSum(what, o, pp) ==
  Sum([dz \in Nodes(pp) |->
         IF what = -1 THEN Mul(shared_B[<<o[1], dz>>], cache_A2[0, dz, o[2], o[3]])
         ELSE IF what = 0 THEN Mul(shared_B[<<o[1], dz>>], cache_A2[1, dz, o[2], o[3]])
         ELSE IF what = 1 THEN Mul(shared_B[<<o[1], dz>>], cache_A2[2, dz, o[2], o[3]])
         ELSE Mul(shared_G[<<o[1], dz>>], cache_A2[0, dz, o[2], o[3]])])

DeviceInit ==
  \E kernel \in InterpolatingKernels, pq \in OrdersAndPoints, cc \in 1 .. MaxComponents :
    /\ launch = [kernel |-> kernel, p |-> pq[1], q |-> pq[2], c |-> cc, e |-> 0,
                 blockDim |-> <<pq[2], pq[2], pq[2]>>]
    /\ tpc = [t \in Threads(<<pq[2], pq[2], pq[2]>>) |-> 0]
    /\ X = SeededDofs(1, pq[1], cc)
    /\ shared_B = [e \in QPts(pq[2]) \X Nodes(pq[1]) |-> Uninitialised]
    /\ shared_G = [e \in QPts(pq[2]) \X Nodes(pq[1]) |-> Uninitialised]
    /\ cache_A1 = [k \in A1Planes(kernel), dz \in Nodes(pq[1]), dy \in Nodes(pq[1]),
                   qx \in QPts(pq[2]) |-> Uninitialised]
    /\ cache_A2 = [k \in A2Planes(kernel), dz \in Nodes(pq[1]), qy \in QPts(pq[2]),
                   qx \in QPts(pq[2]) |-> Uninitialised]
    /\ qf_input = [t \in Threads(<<pq[2], pq[2], pq[2]>>) |-> ZeroInput(kernel, cc)]
    /\ shared_tables = <<>>
    /\ table_writers = <<>>
    /\ A1_written = <<>>
    /\ A2_written = <<>>
    /\ hazards = {}
    /\ writes = {}
    /\ barriers = <<>>
    /\ tparams = [p |-> 0, q |-> 0, c |-> 0, overload |-> "none"]
    /\ jacobians = <<>>
    /\ sources = <<>>
    /\ fluxes = <<>>
    /\ element_residual = <<>>
    /\ values_and_derivatives = NoResult
    /\ hcall = NoCall
    /\ QuadIdle
    /\ FunIdle
    /\ SolidIdle
    /\ ThermalIdle
    /\ UtilIdle

\* what a device action leaves alone besides the block's memory
DeviceFrame ==
  /\ UNCHANGED <<launch, shared_tables, table_writers, A1_written, A2_written, hazards,
                 writes, barriers>>
  /\ UNCHANGED <<hexVars, quadVars, funVars, solidVars, thermalVars, utilVars>>

\* if (threadIdx.z == 0) { B(j, i) = B_(j, i); G(j, i) = G_(j, i); }
DeviceStageTables ==
  \E t \in DOMAIN tpc :
    /\ launch.kernel \in InterpolatingKernels
    /\ DOMAIN shared_B # {}
    /\ MayRun(t, 0)
    /\ LET mine == StagedBy(t, launch.blockDim, launch.p, launch.q)
           B_ == BasisB(launch.p, launch.q)
           G_ == BasisG(launch.p, launch.q)
       IN  /\ shared_B' = [e \in DOMAIN shared_B |->
                             IF e \in mine THEN B_[e[1]][e[2]] ELSE shared_B[e]]
           /\ shared_G' = [e \in DOMAIN shared_G |->
                             IF e \in mine /\ launch.kernel # "interpolate_value"
                               THEN G_[e[1]][e[2]] ELSE shared_G[e]]
    /\ tpc' = [tpc EXCEPT ![t] = 1]
    /\ UNCHANGED <<cache_A1, cache_A2, qf_input>>
    /\ DeviceFrame

\* the first loop nest of component i
DeviceFirstPass ==
  \E t \in DOMAIN tpc, ph \in 1 .. NumLoopNests(launch.c) - 1 :
    /\ DOMAIN shared_B # {}
    /\ MayRun(t, ph)
    /\ PassOf(ph) = 1
    /\ LET mine == FirstPassWrites(launch.kernel, t, launch.blockDim, launch.p, launch.q)
       IN  cache_A1' = [k \in A1Planes(launch.kernel), dz \in Nodes(launch.p),
                        dy \in Nodes(launch.p), qx \in QPts(launch.q) |->
                          IF <<dz, dy, qx>> \in mine
                            THEN DeviceFirstPassSum(k, ComponentOf(ph), <<dz, dy, qx>>, launch.p)
                            ELSE cache_A1[k, dz, dy, qx]]
    /\ tpc' = [tpc EXCEPT ![t] = ph + 1]
    /\ UNCHANGED <<shared_B, shared_G, cache_A2, qf_input>>
    /\ DeviceFrame

\* the second loop nest of component i
DeviceSecondPass ==
  \E t \in DOMAIN tpc, ph \in 1 .. NumLoopNests(launch.c) - 1 :
    /\ DOMAIN shared_B # {}
    /\ MayRun(t, ph)
    /\ PassOf(ph) = 2
    /\ LET mine == SecondPassWrites(launch.kernel, t, launch.blockDim, launch.p, launch.q)
       IN  cache_A2' = [k \in A2Planes(launch.kernel), dz \in Nodes(launch.p),
                        qy \in QPts(launch.q), qx \in QPts(launch.q) |->
                          IF <<dz, qy, qx>> \in mine
                            THEN DeviceSecondPassSum(k, <<dz, qy, qx>>, launch.p)
                            ELSE cache_A2[k, dz, qy, qx]]
    /\ tpc' = [tpc EXCEPT ![t] = ph + 1]
    /\ UNCHANGED <<shared_B, shared_G, cache_A1, qf_input>>
    /\ DeviceFrame

\* the third loop nest of component i: every point the thread's loops visit
\* is added to the same qf_input
DeviceThirdPass ==
  \E t \in DOMAIN tpc, ph \in 1 .. NumLoopNests(launch.c) - 1 :
    /\ DOMAIN shared_B # {}
    /\ MayRun(t, ph)
    /\ PassOf(ph) = 3
    /\ LET mine == ThirdPassOutputs(launch.kernel, t, launch.blockDim, launch.p, launch.q)
           i == ComponentOf(ph)
           added(what) == SumOver([o \in mine |-> DeviceThirdPassSum(what, o, launch.p)], mine)
           old == qf_input[t]
           value == [old.value EXCEPT ![i] = Add(@, added(-1))]
           gradient == [j \in Comps(launch.c), d \in Dim |->
                          IF j = i THEN Add(old.gradient[j, d], added(d))
                          ELSE old.gradient[j, d]]
       IN  qf_input' =
             [qf_input EXCEPT ![t] =
                IF launch.kernel = "interpolate" THEN [value |-> value, gradient |-> gradient]
                ELSE IF launch.kernel = "interpolate_value" THEN [value |-> value]
                ELSE [gradient |-> gradient]]
    /\ tpc' = [tpc EXCEPT ![t] = ph + 1]
    /\ UNCHANGED <<shared_B, shared_G, cache_A1, cache_A2>>
    /\ DeviceFrame

DeviceNext ==
  \/ DeviceStageTables
  \/ DeviceFirstPass
  \/ DeviceSecondPass
  \/ DeviceThirdPass

SpecGpuInterpolate == DeviceInit /\ [][DeviceNext]_vars

\* every thread of the block has returned
AllReturned ==
  /\ launch.kernel \in InterpolatingKernels
  /\ DOMAIN shared_B # {}
  /\ \A t \in DOMAIN tpc : tpc[t] = NumLoopNests(launch.c)

\* C20: run by a block of q x q x q threads, interpolate returns to thread
\* (x, y, z) the value and the reference gradient that the simd interpolate of
\* the CPU computes from the same dofs for the point qx = x, qy = y, qz = z;
\* the value-only kernel returns that value and gradient that gradient.
C20_DeviceInterpolateIsSimdInterpolate ==
  AllReturned =>
    LET vd == interpolate_simd(X, launch.p, launch.q, launch.c)
    IN  \A t \in DOMAIN tpc, i \in Comps(launch.c) :
          /\ launch.kernel \in {"interpolate", "interpolate_value"} =>
               qf_input[t].value[i] = vd.value[t[3], t[2], t[1], i]
          /\ launch.kernel \in {"interpolate", "gradient"} =>
               \A d \in Dim : qf_input[t].gradient[i, d] = vd.gradient[t[3], t[2], t[1], i, d]

\* a block of eight threads has returned from the gradient kernel of a
\* second-order element with two components, with different gradients
\* in different threads
C20_Witness ==
  /\ AllReturned
  /\ launch.kernel = "gradient"
  /\ launch.p = 2
  /\ launch.q = 2
  /\ launch.c = 2
  /\ qf_input[<<0, 0, 0>>] # qf_input[<<1, 1, 1>>]
  /\ qf_input[<<1, 0, 0>>] # qf_input[<<0, 0, 1>>]


(***************************************************************************)
(* MaterialDriver::runUniaxial(maxTime, strain, nsteps).  The material is  *)
(* any function: each of its responses is a choice among a few residual    *)
(* norms and axial stresses.  Times are exact rationals.                   *)
(***************************************************************************)
MaxTime == 1
MaxSteps == 2
MAXITERS == 10

\* the responses of the material: the norm of the residual, <<0, 0>> for
\* zero and <<1, k>> for 10^k, and the axial stress
Responses ==
  {[resnorm |-> <<0, 0>>, stress |-> 0],
   [resnorm |-> <<1, 0>>, stress |-> 1],
   [resnorm |-> <<1, -11>>, stress |-> 0]}

\* a < tol * b with tol = 1e-10
LessThanTolTimes(a, b) ==
  /\ b[1] = 1
  /\ a[1] = 0 \/ a[2] < b[2] - 10

\* the argument strain: the axial displacement gradient as a function of time
strain(time) == Mul(FromInt(3), time)

\* a Newton loop that runs while j <= MAXITERS
NewtonLoopCondition_OneMore(j) == j <= MAXITERS

\* j < MAXITERS
NewtonLoopCondition(j) == j < MAXITERS

DriverInit ==
  \E maxTime \in 1 .. MaxTime, nsteps \in 1 .. MaxSteps :
    /\ driver_args = [maxTime |-> maxTime, nsteps |-> nsteps]
    /\ driver_t = Zero
    /\ dudx = Zero
    /\ step_i = 0
    /\ newton_j = 0
    /\ corrections = 0
    /\ resnorm0 = <<0, 0>>
    /\ resnorm = <<0, 0>>
    /\ stress = 0
    /\ stress_strain_history = <<>>
    /\ driver_pc = "loop"
    /\ HexIdle
    /\ QuadIdle
    /\ FunIdle
    /\ SolidIdle
    /\ ThermalIdle
    /\ GpuIdle
    /\ ReferenceIdle
    /\ FaceIdle
    /\ CacheIdle

\* what the driver's steps leave alone
DriverFrame ==
  /\ UNCHANGED driver_args
  /\ UNCHANGED <<hexVars, quadVars, funVars, solidVars, thermalVars, gpuVars>>
  /\ UNCHANGED <<referenceVars, faceVars, cacheVars>>

\* the head of the loop over the steps: t += dt, dudx[0][0] = strain(t), the
\* first response of the material, resnorm0 and J
BeginStep ==
  /\ driver_pc = "loop"
  /\ step_i < driver_args.nsteps
  /\ LET dt == Rat(driver_args.maxTime, driver_args.nsteps)
     IN  /\ driver_t' = Add(driver_t, dt)
         /\ dudx' = strain(Add(driver_t, dt))
  /\ \E response \in Responses :
       /\ resnorm' = response.resnorm
       /\ resnorm0' = response.resnorm
       /\ stress' = response.stress
  /\ newton_j' = 0
  /\ corrections' = 0
  /\ driver_pc' = "newton"
  /\ UNCHANGED <<step_i, stress_strain_history>>
  /\ DriverFrame

\* one pass through the body of the Newton loop: the correction of dudx, the
\* new response, and the break or the new J and j++
NewtonIteration ==
  /\ driver_pc = "newton"
  /\ NewtonLoopCondition(newton_j)
  /\ corrections' = corrections + 1
  /\ \E response \in Responses :
       /\ resnorm' = response.resnorm
       /\ stress' = response.stress
       /\ IF LessThanTolTimes(response.resnorm, resnorm0)
            THEN /\ driver_pc' = "push"
                 /\ UNCHANGED newton_j
            ELSE /\ newton_j' = newton_j + 1
                 /\ UNCHANGED driver_pc
  /\ UNCHANGED <<driver_t, dudx, step_i, resnorm0, stress_strain_history>>
  /\ DriverFrame

\* the end of the body of the loop over the steps, reached by the break or
\* by the end of the Newton loop: push_back and i++
EndStep ==
  /\ \/ driver_pc = "push"
     \/ driver_pc = "newton" /\ ~NewtonLoopCondition(newton_j)
  /\ stress_strain_history' = Append(stress_strain_history, <<dudx, stress>>)
  /\ step_i' = step_i + 1
  /\ driver_pc' = "loop"
  /\ UNCHANGED <<driver_t, dudx, newton_j, corrections, resnorm0, resnorm, stress>>
  /\ DriverFrame

\* return stress_strain_history
ReturnHistory ==
  /\ driver_pc = "loop"
  /\ step_i >= driver_args.nsteps
  /\ driver_pc' = "returned"
  /\ UNCHANGED <<driver_t, dudx, step_i, newton_j, corrections, resnorm0, resnorm, stress,
                 stress_strain_history>>
  /\ DriverFrame

DriverNext ==
  \/ BeginStep
  \/ NewtonIteration
  \/ EndStep
  \/ ReturnHistory

\* the call is one sequential thread that runs until it returns
SpecDriver == DriverInit /\ [][DriverNext]_vars /\ WF_vars(DriverNext)

\* what holds of the call at every moment: no step makes more than MAXITERS
\* corrections, the history has one pair for every finished step, pair k
\* holds strain(k * maxTime / nsteps), and the returned history has nsteps pairs
DriverSteps ==
  /\ corrections <= 10
  /\ Len(stress_strain_history) = step_i
  /\ step_i <= driver_args.nsteps
  /\ \A k \in 1 .. Len(stress_strain_history) :
       stress_strain_history[k][1] =
         Mul(FromInt(3), Rat(k * driver_args.maxTime, driver_args.nsteps))
  /\ driver_pc = "returned" => Len(stress_strain_history) = driver_args.nsteps

\* C23: runUniaxial returns for every nsteps >= 1 and every sequence of
\* material responses, having made at most MAXITERS = 10 Newton corrections
\* in each step, with exactly nsteps pairs, the k-th holding the strain at
\* time k * maxTime / nsteps.
C23_RunUniaxialTerminates ==
  /\ [](driver_pc # "none" => DriverSteps)
  /\ (driver_pc # "none") ~> (driver_pc = "returned")

\* a call of two steps has returned after a step that started from a zero
\* residual and used all ten corrections without the break
C23_Witness ==
  /\ driver_pc = "returned"
  /\ driver_args.nsteps = 2
  /\ Len(stress_strain_history) = 2
  /\ resnorm0 = <<0, 0>>
  /\ corrections = 10
  /\ newton_j = 10


(***************************************************************************)
(* reference_cuda_kernel: a grid of gridDim.x blocks of blockDim.x threads *)
(* runs a grid-stride loop over the pairs (element, quadrature point).  A  *)
(* thread's steps are the body of the loop up to detail::Add, and          *)
(* detail::Add.  What r holds is recorded as the number of contributions   *)
(* of every pair that have been added to it.                               *)
(***************************************************************************)
MaxGridDim == 2
MaxGridThreads == 4
MaxNumElements == 2

\* rule.size() of the quadrilateral rules with Q = 1 and Q = 2
RuleSizes == {1, 4}

\* the threads: blockIdx.x * blockDim.x + threadIdx.x
GridThreads(gridDim, blockDim) == 0 .. gridDim * blockDim - 1

\* an addition to r(i, e) that writes back what the thread read beforehand
AddBase_ReadBeforehand(seen, now) == seen

\* the value detail::Add adds the contribution to: the value r(., e) has at
\* the moment of the addition
AddBase(seen, now) == now

ReferenceInit ==
  \E gridDim \in 1 .. MaxGridDim, blockDim \in 1 .. MaxGridThreads,
     num_elements \in 0 .. MaxNumElements, rule_size \in RuleSizes :
    /\ gridDim * blockDim <= MaxGridThreads
    /\ grid = [gridDim |-> gridDim, blockDim |-> blockDim, num_elements |-> num_elements,
               rule_size |-> rule_size]
    /\ qe = [th \in GridThreads(gridDim, blockDim) |-> th]
    /\ adding = [th \in GridThreads(gridDim, blockDim) |-> FALSE]
    /\ r_seen = [th \in GridThreads(gridDim, blockDim) |-> <<>>]
    /\ r_global = [e \in 0 .. num_elements - 1 |-> [q \in 0 .. rule_size - 1 |-> 0]]
    /\ visits = {}
    /\ HexIdle
    /\ QuadIdle
    /\ FunIdle
    /\ SolidIdle
    /\ ThermalIdle
    /\ GpuIdle
    /\ DriverIdle
    /\ FaceIdle
    /\ CacheIdle

ReferenceFrame ==
  /\ UNCHANGED grid
  /\ UNCHANGED <<hexVars, quadVars, funVars, solidVars, thermalVars, gpuVars>>
  /\ UNCHANGED <<driverVars, faceVars, cacheVars>>

\* the body of the loop from the test qe < num_elements * rule.size() to the
\* call of detail::Add: e and q, the element's values, and r_elem
LoopBody ==
  \E th \in DOMAIN qe :
    /\ ~adding[th]
    /\ qe[th] < grid.num_elements * grid.rule_size
    /\ LET e == qe[th] \div grid.rule_size
           q == qe[th] % grid.rule_size
       IN  /\ visits' = visits \cup {[thread |-> th, qe |-> qe[th], e |-> e, q |-> q]}
           /\ r_seen' = [r_seen EXCEPT ![th] = r_global[e]]
    /\ adding' = [adding EXCEPT ![th] = TRUE]
    /\ UNCHANGED <<qe, r_global>>
    /\ ReferenceFrame

\* detail::Add(r, r_elem, e) and qe += grid_stride
AddToResidual ==
  \E th \in DOMAIN qe :
    /\ adding[th]
    /\ LET e == qe[th] \div grid.rule_size
           q == qe[th] % grid.rule_size
           base == AddBase(r_seen[th], r_global[e])
       IN  r_global' = [r_global EXCEPT ![e] = [base EXCEPT ![q] = base[q] + 1]]
    /\ qe' = [qe EXCEPT ![th] = qe[th] + grid.blockDim * grid.gridDim]
    /\ adding' = [adding EXCEPT ![th] = FALSE]
    /\ r_seen' = [r_seen EXCEPT ![th] = <<>>]
    /\ UNCHANGED visits
    /\ ReferenceFrame

ReferenceNext ==
  \/ LoopBody
  \/ AddToResidual

SpecReference == ReferenceInit /\ [][ReferenceNext]_vars

\* the iterations that have completed their detail::Add
CompletedVisits == {v \in visits : qe[v.thread] > v.qe}

\* every thread has left its loop
AllThreadsDone ==
  \A th \in DOMAIN qe : ~adding[th] /\ qe[th] >= grid.num_elements * grid.rule_size

\* C24: every iteration works on a pair (e, q) with e < num_elements,
\* q < rule.size() and e * rule.size() + q = qe; no pair is worked on by two
\* iterations; at every moment r holds, of every pair, exactly the
\* contributions of the iterations that have completed their addition; and
\* when every thread has left its loop every pair has been worked on by
\* exactly one iteration and is in r exactly once.
C24_EveryPairContributesOnce ==
  grid.blockDim > 0 =>
    /\ \A v \in visits :
         /\ v.e \in 0 .. grid.num_elements - 1
         /\ v.q \in 0 .. grid.rule_size - 1
         /\ v.e * grid.rule_size + v.q = v.qe
    /\ \A v \in visits, w \in visits : (v.e = w.e /\ v.q = w.q) => v = w
    /\ \A e \in DOMAIN r_global : \A q \in DOMAIN r_global[e] :
         r_global[e][q] = Cardinality({v \in CompletedVisits : v.e = e /\ v.q = q})
    /\ AllThreadsDone =>
         \A e \in 0 .. grid.num_elements - 1 : \A q \in 0 .. grid.rule_size - 1 :
           /\ Cardinality({v \in visits : v.e = e /\ v.q = q}) = 1
           /\ r_global[e][q] = 1

\* two blocks of one thread have finished two elements of four points; both
\* threads have worked on both elements, and more than once each
C24_Witness ==
  /\ grid = [gridDim |-> 2, blockDim |-> 1, num_elements |-> 2, rule_size |-> 4]
  /\ AllThreadsDone
  /\ \A e \in {0, 1} : \A th \in {0, 1} : \E v \in visits : v.e = e /\ v.thread = th
  /\ \A e \in {0, 1} : \A q \in 0 .. 3 : r_global[e][q] = 1


(***************************************************************************)
(* geom_local_face_dofs(p): the local dof ids of the sides of the          *)
(* triangle, the quadrilateral, the tetrahedron and the hexahedron.  A     *)
(* step is one iteration of one of its four loops.                         *)
(***************************************************************************)
MaxFaceOrder == 4

tri_id(p, x, y) == x + (((3 + 2 * p - y) * y) \div 2)

tet_id(p, x, y, z) ==
  x + ((z * (11 + p * (12 + 3 * p) - 6 * y + z * (z - 6 - 3 * p)) - 3 * y * (y - 2 * p - 3)) \div 6)

quad_id(p, x, y) == ((p + 1) * y) + x

hex_id(p, x, y, z) == (p + 1) * ((p + 1) * z + y) + x

\* the table with entry (side, index) of one geometry set to id
Put(table, geom, side, index, id) ==
  [table EXCEPT ![geom] = [@ EXCEPT ![side] = [@ EXCEPT ![index] = id]]]

FaceInit ==
  \E p \in 1 .. MaxFaceOrder :
    /\ face_p = p
    /\ face_pc = "tris"
    /\ face_k = 0
    /\ face_j = 0
    /\ output =
         [TRIANGLE |-> [side \in 0 .. 2 |-> [i \in 0 .. p |-> -1]],
          SQUARE |-> [side \in 0 .. 3 |-> [i \in 0 .. p |-> -1]],
          TETRAHEDRON |->
            [side \in 0 .. 3 |-> [i \in 0 .. (((p + 1) * (p + 2)) \div 2) - 1 |-> -1]],
          CUBE |-> [side \in 0 .. 5 |-> [i \in 0 .. ((p + 1) * (p + 1)) - 1 |-> -1]]]
    /\ HexIdle
    /\ QuadIdle
    /\ FunIdle
    /\ SolidIdle
    /\ ThermalIdle
    /\ GpuIdle
    /\ DriverIdle
    /\ ReferenceIdle
    /\ CacheIdle

FaceFrame ==
  /\ UNCHANGED face_p
  /\ UNCHANGED <<hexVars, quadVars, funVars, solidVars, thermalVars, gpuVars>>
  /\ UNCHANGED <<driverVars, referenceVars, cacheVars>>

\* for (int k = 0; k <= p; k++) { tris(0, k) = ...; tris(1, k) = ...; tris(2, k) = ...; }
TrisIteration ==
  /\ face_pc = "tris"
  /\ LET p == face_p
         k == face_k
     IN  /\ output' = Put(Put(Put(output, "TRIANGLE", 0, k, tri_id(p, k, 0)),
                              "TRIANGLE", 1, k, tri_id(p, p - k, k)),
                          "TRIANGLE", 2, k, tri_id(p, 0, p - k))
         /\ IF k + 1 <= p
              THEN face_k' = k + 1 /\ UNCHANGED face_pc
              ELSE face_k' = 0 /\ face_pc' = "quads"
  /\ UNCHANGED face_j
  /\ FaceFrame

\* for (int k = 0; k <= p; k++) { quads(0, k) = ...; ...; quads(3, k) = ...; }
QuadsIteration ==
  /\ face_pc = "quads"
  /\ LET p == face_p
         k == face_k
     IN  /\ output' = Put(Put(Put(Put(output, "SQUARE", 0, k, quad_id(p, k, 0)),
                                  "SQUARE", 1, k, quad_id(p, p, k)),
                              "SQUARE", 2, k, quad_id(p, p - k, k)),
                          "SQUARE", 3, k, quad_id(p, 0, p - k))
         /\ IF k + 1 <= p
              THEN face_k' = k + 1 /\ UNCHANGED face_pc
              ELSE face_k' = 0 /\ face_pc' = "tets"
  /\ UNCHANGED face_j
  /\ FaceFrame

\* for (k = 0; k <= p; k++) for (j = 0; j <= p - k; j++) { tets(0..3, tri_id(j, k)) = ...; }
TetsIteration ==
  /\ face_pc = "tets"
  /\ LET p == face_p
         k == face_k
         j == face_j
         id == tri_id(p, j, k)
     IN  /\ output' = Put(Put(Put(Put(output, "TETRAHEDRON", 0, id, tet_id(p, p - j - k, j, k)),
                                  "TETRAHEDRON", 1, id, tet_id(p, 0, k, j)),
                              "TETRAHEDRON", 2, id, tet_id(p, j, 0, k)),
                          "TETRAHEDRON", 3, id, tet_id(p, k, j, 0))
         /\ IF j + 1 <= p - k
              THEN face_j' = j + 1 /\ UNCHANGED <<face_k, face_pc>>
              ELSE IF k + 1 <= p
                THEN face_j' = 0 /\ face_k' = k + 1 /\ UNCHANGED face_pc
                ELSE face_j' = 0 /\ face_k' = 0 /\ face_pc' = "hexes"
  /\ FaceFrame

\* for (k = 0; k <= p; k++) for (j = 0; j <= p; j++) { hexes(0..5, quad_id(j, k)) = ...; }
HexesIteration ==
  /\ face_pc = "hexes"
  /\ LET p == face_p
         k == face_k
         j == face_j
         id == quad_id(p, j, k)
     IN  /\ output' =
              Put(Put(Put(Put(Put(Put(output, "CUBE", 0, id, hex_id(p, j, p - k, 0)),
                                  "CUBE", 1, id, hex_id(p, j, 0, k)),
                              "CUBE", 2, id, hex_id(p, p, j, k)),
                          "CUBE", 3, id, hex_id(p, p - j, p, k)),
                      "CUBE", 4, id, hex_id(p, 0, p - j, k)),
                  "CUBE", 5, id, hex_id(p, j, k, p))
         /\ IF j + 1 <= p
              THEN face_j' = j + 1 /\ UNCHANGED <<face_k, face_pc>>
              ELSE IF k + 1 <= p
                THEN face_j' = 0 /\ face_k' = k + 1 /\ UNCHANGED face_pc
                ELSE face_j' = 0 /\ face_k' = 0 /\ face_pc' = "return"
  /\ FaceFrame

\* return output
ReturnOutput ==
  /\ face_pc = "return"
  /\ face_pc' = "returned"
  /\ UNCHANGED <<face_k, face_j, output>>
  /\ FaceFrame

FaceNext ==
  \/ TrisIteration
  \/ QuadsIteration
  \/ TetsIteration
  \/ HexesIteration
  \/ ReturnOutput

SpecFaceDofs == FaceInit /\ [][FaceNext]_vars

\* the node <<x, y, z>> as a number in base p + 1, z the leading digit
NodeCode(p, n) == ((p + 1) * (((p + 1) * n[3]) + n[2])) + n[1]

\* the nodes of a geometry: <<x, y, z>>, with z = 0 in two dimensions
GeometryNodes(geom, p) ==
  LET all == (0 .. p) \X (0 .. p) \X (0 .. p)
  IN  IF geom = "TRIANGLE" THEN {n \in all : n[3] = 0 /\ n[1] + n[2] <= p}
      ELSE IF geom = "SQUARE" THEN {n \in all : n[3] = 0}
      ELSE IF geom = "TETRAHEDRON" THEN {n \in all : n[1] + n[2] + n[3] <= p}
      ELSE all

\* the local dof id of a node: its position, from 0, among the nodes of the
\* geometry in lexicographic order, x running fastest
LocalDofId(geom, p, n) ==
  Cardinality({m \in GeometryNodes(geom, p) : NodeCode(p, m) < NodeCode(p, n)})

\* node n lies on side s of the reference element: the sides of the
\* triangle and of the quadrilateral are the edges from vertex s to the next
\* vertex, the faces of the tetrahedron and of the hexahedron are those of
\* the face tables {1,2,3}, {0,3,2}, {0,1,3}, {0,2,1} and {3,2,1,0},
\* {0,1,5,4}, {1,2,6,5}, {2,3,7,6}, {3,0,4,7}, {4,5,6,7}
OnSide(geom, p, s, n) ==
  IF geom = "TRIANGLE"
    THEN (s = 0 /\ n[2] = 0) \/ (s = 1 /\ n[1] + n[2] = p) \/ (s = 2 /\ n[1] = 0)
  ELSE IF geom = "SQUARE"
    THEN \/ s = 0 /\ n[2] = 0
         \/ s = 1 /\ n[1] = p
         \/ s = 2 /\ n[2] = p
         \/ s = 3 /\ n[1] = 0
  ELSE IF geom = "TETRAHEDRON"
    THEN \/ s = 0 /\ n[1] + n[2] + n[3] = p
         \/ s = 1 /\ n[1] = 0
         \/ s = 2 /\ n[2] = 0
         \/ s = 3 /\ n[3] = 0
  ELSE \/ s = 0 /\ n[3] = 0
       \/ s = 1 /\ n[2] = 0
       \/ s = 2 /\ n[1] = p
       \/ s = 3 /\ n[2] = p
       \/ s = 4 /\ n[1] = 0
       \/ s = 5 /\ n[3] = p

\* the ids listed for side s of a geometry are distinct, are local dof ids
\* of the element and are nodes on side s
SideListsItsNodes(geom, s) ==
  LET ids == output[geom][s]
      nodes == GeometryNodes(geom, face_p)
      onSide == {LocalDofId(geom, face_p, n) : n \in {m \in nodes : OnSide(geom, face_p, s, m)}}
  IN  /\ \A a \in DOMAIN ids, b \in DOMAIN ids : ids[a] = ids[b] => a = b
      /\ \A a \in DOMAIN ids :
           /\ ids[a] \in 0 .. Cardinality(nodes) - 1
           /\ ids[a] \in onSide

\* C26: in what geom_local_face_dofs(p) returns, for the triangle, the
\* quadrilateral, the tetrahedron and the hexahedron, the local dof ids
\* listed for side s are distinct, lie in the element's dof range and are
\* nodes on side s of the reference element; for the quadrilateral side 0 has
\* y = 0, side 1 has x = p, side 2 has y = p and side 3 has x = 0.
C26_FaceDofsLieOnTheirSide ==
  face_pc = "returned" =>
    \A geom \in {"TRIANGLE", "SQUARE", "TETRAHEDRON", "CUBE"} :
      \A s \in DOMAIN output[geom] : SideListsItsNodes(geom, s)


(***************************************************************************)
(* The CPU interpolate and integrate followed through their scratch        *)
(* cache: which entries of cache.A1 and cache.A2 each loop nest writes and *)
(* reads, for n = p + 1 nodes and q points per dimension.  A step is one   *)
(* loop nest of one component.                                             *)
(***************************************************************************)
MaxCacheOrder == 2
MaxCachePoints == 3

\* tensor<double, 2, n, n, q> A1; tensor<double, 3, n, q, q> A2;
CacheExtents(name, n, q) ==
  IF name = "A1" THEN (0 .. 1) \X (0 .. n - 1) \X (0 .. n - 1) \X (0 .. q - 1)
  ELSE (0 .. 2) \X (0 .. n - 1) \X (0 .. q - 1) \X (0 .. q - 1)

\* interpolate's cache.A1(k, dz, dy, qx) and cache.A2(k, dz, qy, qx)
InterpolateCacheIndex(k, dz, y, qx) == <<k, dz, y, qx>>

\* integrate indexing the cache as the device kernel indexes its scratch:
\* A2(k, qz, qy, dx) and A1(k, qz, dy, dx)
IntegrateCacheIndex_AsOnDevice(k, dx, y, qz) == <<k, qz, y, dx>>

\* integrate's cache.A2(k, dx, qy, qz) and cache.A1(k, dx, dy, qz)
IntegrateCacheIndex(k, dx, y, qz) == <<k, dx, y, qz>>

\* the accesses [array, index] of the first loop nest of a component: the
\* stores to A1 in interpolate, to A2 in integrate
CacheFirstPassWrites(kernel, n, q) ==
  IF kernel = "interpolate"
    THEN {[array |-> "A1", index |-> InterpolateCacheIndex(k, dz, dy, qx)] :
            k \in 0 .. 1, dz \in 0 .. n - 1, dy \in 0 .. n - 1, qx \in 0 .. q - 1}
    ELSE {[array |-> "A2", index |-> IntegrateCacheIndex(k, dx, qy, qz)] :
            k \in 0 .. 2, dx \in 0 .. n - 1, qy \in 0 .. q - 1, qz \in 0 .. q - 1}

\* the second loop nest reads what the first stored, summing over dy or qy
CacheSecondPassReads(kernel, n, q) ==
  IF kernel = "interpolate"
    THEN {[array |-> "A1", index |-> InterpolateCacheIndex(k, dz, dy, qx)] :
            k \in 0 .. 1, dz \in 0 .. n - 1, dy \in 0 .. n - 1, qx \in 0 .. q - 1}
    ELSE {[array |-> "A2", index |-> IntegrateCacheIndex(k, dx, qy, qz)] :
            k \in 0 .. 2, dx \in 0 .. n - 1, qy \in 0 .. q - 1, qz \in 0 .. q - 1}

\* and stores to A2 in interpolate, to A1 in integrate
CacheSecondPassWrites(kernel, n, q) ==
  IF kernel = "interpolate"
    THEN {[array |-> "A2", index |-> InterpolateCacheIndex(k, dz, qy, qx)] :
            k \in 0 .. 2, dz \in 0 .. n - 1, qy \in 0 .. q - 1, qx \in 0 .. q - 1}
    ELSE {[array |-> "A1", index |-> IntegrateCacheIndex(k, dx, dy, qz)] :
            k \in 0 .. 1, dx \in 0 .. n - 1, dy \in 0 .. n - 1, qz \in 0 .. q - 1}

\* the third loop nest reads what the second stored, summing over dz or qz
CacheThirdPassReads(kernel, n, q) ==
  IF kernel = "interpolate"
    THEN {[array |-> "A2", index |-> InterpolateCacheIndex(k, dz, qy, qx)] :
            k \in 0 .. 2, dz \in 0 .. n - 1, qy \in 0 .. q - 1, qx \in 0 .. q - 1}
    ELSE {[array |-> "A1", index |-> IntegrateCacheIndex(k, dx, dy, qz)] :
            k \in 0 .. 1, dx \in 0 .. n - 1, dy \in 0 .. n - 1, qz \in 0 .. q - 1}

\* a tensor after the stores of a loop nest of component i
CacheAfterWrites(tensor, name, accesses, i) ==
  [e \in DOMAIN tensor |->
     IF [array |-> name, index |-> e] \in accesses THEN i ELSE tensor[e]]

\* the accesses of a loop nest with an index outside the declared extents
OutsideExtents(accesses, n, q) ==
  {[fault |-> "outside the extents", array |-> a.array, index |-> a.index] :
     a \in {b \in accesses : b.index \notin CacheExtents(b.array, n, q)}}

\* the reads of component i of entries that no loop nest of component i wrote
StaleReads(reads, i) ==
  {[fault |-> "not written in this component", array |-> a.array, index |-> a.index] :
     a \in {b \in reads :
              \/ b.array = "A1" /\ b.index \in DOMAIN cpu_A1 /\ cpu_A1[b.index] # i
              \/ b.array = "A2" /\ b.index \in DOMAIN cpu_A2 /\ cpu_A2[b.index] # i}}

\* cache_type<q> cache; of interpolate, cache_type<q> cache{}; of integrate
CacheInit ==
  \E kernel \in {"interpolate", "integrate"}, p \in 0 .. MaxCacheOrder,
     q \in 1 .. MaxCachePoints, cc \in 1 .. MaxComponents :
    /\ cpu_call = [kernel |-> kernel, n |-> p + 1, q |-> q, c |-> cc]
    /\ cpu_pc = 0
    /\ cpu_A1 = [e \in CacheExtents("A1", p + 1, q) |-> -1]
    /\ cpu_A2 = [e \in CacheExtents("A2", p + 1, q) |-> -1]
    /\ cpu_faults = {}
    /\ HexIdle
    /\ QuadIdle
    /\ FunIdle
    /\ SolidIdle
    /\ ThermalIdle
    /\ GpuIdle
    /\ DriverIdle
    /\ ReferenceIdle
    /\ FaceIdle

CacheFrame ==
  /\ UNCHANGED cpu_call
  /\ UNCHANGED <<hexVars, quadVars, funVars, solidVars, thermalVars, gpuVars>>
  /\ UNCHANGED <<driverVars, referenceVars, faceVars>>

\* the first loop nest of component i
CacheFirstPass ==
  /\ cpu_call.kernel # "none"
  /\ cpu_pc < 3 * cpu_call.c
  /\ cpu_pc % 3 = 0
  /\ LET writes_ == CacheFirstPassWrites(cpu_call.kernel, cpu_call.n, cpu_call.q)
         i == cpu_pc \div 3
     IN  /\ cpu_A1' = CacheAfterWrites(cpu_A1, "A1", writes_, i)
         /\ cpu_A2' = CacheAfterWrites(cpu_A2, "A2", writes_, i)
         /\ cpu_faults' = cpu_faults \cup OutsideExtents(writes_, cpu_call.n, cpu_call.q)
  /\ cpu_pc' = cpu_pc + 1
  /\ CacheFrame

\* the second loop nest of component i
CacheSecondPass ==
  /\ cpu_call.kernel # "none"
  /\ cpu_pc < 3 * cpu_call.c
  /\ cpu_pc % 3 = 1
  /\ LET reads == CacheSecondPassReads(cpu_call.kernel, cpu_call.n, cpu_call.q)
         writes_ == CacheSecondPassWrites(cpu_call.kernel, cpu_call.n, cpu_call.q)
         i == cpu_pc \div 3
     IN  /\ cpu_A1' = CacheAfterWrites(cpu_A1, "A1", writes_, i)
         /\ cpu_A2' = CacheAfterWrites(cpu_A2, "A2", writes_, i)
         /\ cpu_faults' = cpu_faults
              \cup OutsideExtents(reads \cup writes_, cpu_call.n, cpu_call.q)
              \cup StaleReads(reads, i)
  /\ cpu_pc' = cpu_pc + 1
  /\ CacheFrame

\* the third loop nest of component i
CacheThirdPass ==
  /\ cpu_call.kernel # "none"
  /\ cpu_pc < 3 * cpu_call.c
  /\ cpu_pc % 3 = 2
  /\ LET reads == CacheThirdPassReads(cpu_call.kernel, cpu_call.n, cpu_call.q)
         i == cpu_pc \div 3
     IN  cpu_faults' = cpu_faults
           \cup OutsideExtents(reads, cpu_call.n, cpu_call.q)
           \cup StaleReads(reads, i)
  /\ cpu_pc' = cpu_pc + 1
  /\ UNCHANGED <<cpu_A1, cpu_A2>>
  /\ CacheFrame

CacheNext ==
  \/ CacheFirstPass
  \/ CacheSecondPass
  \/ CacheThirdPass

SpecCpuCache == CacheInit /\ [][CacheNext]_vars

\* C30: in the CPU interpolate and the CPU integrate, for every n and q,
\* equal or not, and in every component iteration, every index into
\* cache.A1 and cache.A2 lies inside the extents (2, n, n, q) and
\* (3, n, q, q), and every entry a loop nest reads was written earlier in
\* the same component iteration: after the first loop nest of component i
\* the tensor it fills holds component i everywhere, after the second both do.
C30_CacheAccessesAreDefined ==
  cpu_call.kernel # "none" =>
    /\ cpu_faults = {}
    /\ LET i == cpu_pc \div 3
           first == IF cpu_call.kernel = "interpolate" THEN cpu_A1 ELSE cpu_A2
           second == IF cpu_call.kernel = "interpolate" THEN cpu_A2 ELSE cpu_A1
       IN  /\ cpu_pc % 3 \in {1, 2} => \A e \in DOMAIN first : first[e] = i
           /\ cpu_pc % 3 = 2 => \A e \in DOMAIN second : second[e] = i

\* an integrate of two components with more points than nodes per dimension
\* has run all its loop nests
C30_Witness ==
  /\ cpu_call.kernel = "integrate"
  /\ cpu_call.n = 1
  /\ cpu_call.q = 3
  /\ cpu_call.c = 2
  /\ cpu_pc = 6
  /\ \A e \in DOMAIN cpu_A1 : cpu_A1[e] = 1
  /\ \A e \in DOMAIN cpu_A2 : cpu_A2[e] = 1

=============================================================================
